---- MODULE Spec2Model ----
(***************************************************************************)
(* A model of the appotech-re tools: the BtPairing (DB_RECORD) codec and   *)
(* its command line editor, the SFX blob codec, locator and injector, and  *)
(* the BtInfo record with its injector.  Bytes are integers 0..255, byte   *)
(* strings are sequences of them, text is a sequence of code points.       *)
(***************************************************************************)
EXTENDS Integers, Sequences, FiniteSets, TLC

VARIABLES
    prog,            \* which program runs: "btpairing", "sfx", "btinfo", "codec"
    pc,              \* position of the run inside main(); "done" once main()
                     \* has returned, "exit" after sys.exit() or an exception
    args,            \* the parsed command line (argparse.Namespace)
    fs,              \* the files on disk that the run reads
    input_binary,    \* the bytes read from the input file
    err,             \* "none", or the error that ended the run
    files,           \* files written so far: sequence of [path, data]
    bp,              \* BtPairing object: [entries, paired_idx]
    bp_off_start,    \* AppotechBtPairing.bp_off_start
    bp_size,         \* AppotechBtPairing.bp_size
    bp_hash,         \* AppotechBtPairing.bp_hash (the hashed bytes themselves)
    prev_entries,    \* bp.entries before the latest list operation
    sb,              \* SfxBlob.entries
    sb_off_start,    \* AppotechSfx.sb_off_start
    sb_size,         \* AppotechSfx.sb_size
    input_files,     \* AppotechSfx.input_files
    btinfo,          \* BtInfo object
    btinfo_off_start, \* AppotechBtInfo.btinfo_off_start
    btinfo_off_end,  \* AppotechBtInfo.btinfo_off_end
    btinfo_hash,     \* AppotechBtInfo.btinfo_hash (the hashed bytes themselves)
    wire,            \* the encoded bytes: of a codec run, or the blob that
                     \* repack_inject_output built before it loads the target
    decoded,         \* codec runs: the result of decoding wire
    default_entries, \* the list objects that are the default value of the
                     \* entries argument of BtPairing() and of SfxBlob()
    instances        \* instance runs: the objects constructed so far

runVars == <<prog, args, fs>>
bpVars == <<bp, bp_off_start, bp_size, bp_hash, prev_entries>>
sfxVars == <<sb, sb_off_start, sb_size, input_files>>
infoVars == <<btinfo, btinfo_off_start, btinfo_off_end, btinfo_hash>>
codecVars == <<wire, decoded>>
instVars == <<default_entries, instances>>

vars == <<runVars, pc, input_binary, err, files, bpVars, sfxVars, infoVars, codecVars,
          instVars>>

-----------------------------------------------------------------------------
(* Bounds of the model.                                                    *)

\* largest number of 55-byte records following the magic in an input image
MaxEntries == 3
\* largest total number of index tokens given to -a and -d together
MaxTokens == 2
\* length of the unparsed region in front of a sector in an input image
PreLen == 3
\* length of the unparsed region behind a sector in an input image
PostLen == 60
\* largest number of entries of a database in a codec run
MaxDbEntries == 2
\* largest number of audio files in the directory of a repack run
MaxFiles == 2
\* largest number of audio files the blob of a firmware image was built from
MaxOldFiles == 1
\* length of the unparsed region behind the blob in a firmware image
SfxPostLen == 300
\* number of bytes missing from the end of the blob in a cut-off image
SfxCut == 100
\* length of the region in front of the BTINF structure in an input image
InfoPreLen == 3
\* length of the region behind the BTINF structure in an input image
InfoPostLen == 4
\* largest number of audio files a blob of a codec run is built from
MaxCodecFiles == 2
\* largest number of objects an instance run constructs
MaxInstances == 2

-----------------------------------------------------------------------------
(* Python built-ins on byte strings and lists.                             *)

Min(a, b) == IF a < b THEN a ELSE b
Max(a, b) == IF a > b THEN a ELSE b

\* bytes(n * [b]) / b"\xNN" * n: a negative count gives the empty string
Fill(n, b) == [i \in 1..Max(n, 0) |-> b]

\* s[a:b] for 0 <= a, 0 <= b: both ends are clamped to len(s)
Slice(s, a, b) == SubSeq(s, Min(a, Len(s)) + 1, Min(b, Len(s)))

\* s[a:] for 0 <= a
SliceFrom(s, a) == Slice(s, a, Len(s))

\* bytes(reversed(s))
Reversed(s) == [i \in 1..Len(s) |-> s[Len(s) + 1 - i]]

\* struct.pack("<Ns", s): s cut to N bytes or right-padded with NUL to N bytes
PackS(s, n) == [i \in 1..n |-> IF i <= Len(s) THEN s[i] ELSE 0]

\* hay.startswith(needle) at 0-based position p
MatchAt(hay, needle, p) ==
    /\ p + Len(needle) <= Len(hay)
    /\ \A j \in 1..Len(needle) : hay[p + j] = needle[j]

RECURSIVE Find(_, _, _)
\* hay.find(needle, from) for from >= 0: the 0-based position of the first
\* match at or after from, -1 when there is none
\* (the next 8 positions are scanned, then the 64 behind them, which keeps
\* the evaluation shallow)
Find(hay, needle, from) ==
    IF from + Len(needle) > Len(hay) THEN -1
    ELSE LET near == {p \in from..(from + 7) : MatchAt(hay, needle, p)}
             far  == {p \in (from + 8)..(from + 71) : MatchAt(hay, needle, p)}
         IN  IF near # {} THEN CHOOSE p \in near : \A q \in near : p <= q
             ELSE IF far # {} THEN CHOOSE p \in far : \A q \in far : p <= q
             ELSE Find(hay, needle, from + 72)

\* list.insert(i, e): a negative index counts from the end, both ends clamp
ListInsert(s, i, e) ==
    LET n == Len(s)
        j == IF i < 0 THEN Max(i + n, 0) ELSE Min(i, n)
    IN  SubSeq(s, 1, j) \o <<e>> \o SubSeq(s, j + 1, n)

RECURSIVE Concat(_)
\* b"".join(list)
Concat(ss) == IF ss = <<>> THEN <<>> ELSE Head(ss) \o Concat(Tail(ss))

RECURSIVE SortedReverse(_)
\* list.sort(reverse=True) on a list of integers
SortedReverse(s) ==
    IF s = <<>> THEN <<>>
    ELSE LET m == CHOOSE i \in 1..Len(s) : \A j \in 1..Len(s) : s[i] >= s[j]
         IN  <<s[m]>> \o SortedReverse(SubSeq(s, 1, m - 1) \o SubSeq(s, m + 1, Len(s)))

Range(s) == {s[i] : i \in 1..Len(s)}

\* struct.pack("<H", n) and struct.pack("<I", n) for n within range
U16LE(n) == <<n % 256, (n \div 256) % 256>>
U32LE(n) == <<n % 256, (n \div 256) % 256, (n \div 65536) % 256, (n \div 16777216) % 256>>

\* C13 mutant: the two bytes in front of the offset are read
ReadU16_TwoEarlier(data, off) == data[off - 1] + 256 * data[off]

\* struct.unpack("<H") and struct.unpack("<I") at 0-based offset off
ReadU16(data, off) == data[off + 1] + 256 * data[off + 2]
ReadU32(data, off) ==
    data[off + 1] + 256 * data[off + 2] + 65536 * data[off + 3] + 16777216 * data[off + 4]

-----------------------------------------------------------------------------
(* UTF-8, as str.encode() and bytes.decode("utf-8") compute it.            *)

\* the UTF-8 bytes of one code point (surrogates are not encodable and are
\* not drawn by the model)
Utf8Char(c) ==
    IF c < 128 THEN <<c>>
    ELSE IF c < 2048 THEN <<192 + (c \div 64), 128 + (c % 64)>>
    ELSE IF c < 65536 THEN
        <<224 + (c \div 4096), 128 + ((c \div 64) % 64), 128 + (c % 64)>>
    ELSE <<240 + (c \div 262144), 128 + ((c \div 4096) % 64),
           128 + ((c \div 64) % 64), 128 + (c % 64)>>

RECURSIVE Utf8Encode(_)
Utf8Encode(text) ==
    IF text = <<>> THEN <<>> ELSE Utf8Char(Head(text)) \o Utf8Encode(Tail(text))

IsCont(b) == b >= 128 /\ b <= 191

\* length of the well-formed UTF-8 sequence at the head of b, 0 when the
\* head is not well-formed (strict decoding: no overlong forms, no
\* surrogates, nothing above U+10FFFF)
Utf8Len(b) ==
    LET n  == Len(b)
        b1 == b[1]
    IN  IF b1 < 128 THEN 1
        ELSE IF b1 >= 194 /\ b1 <= 223 THEN
            IF n >= 2 /\ IsCont(b[2]) THEN 2 ELSE 0
        ELSE IF b1 >= 224 /\ b1 <= 239 THEN
            IF /\ n >= 3
               /\ IsCont(b[2])
               /\ IsCont(b[3])
               /\ (b1 = 224 => b[2] >= 160)
               /\ (b1 = 237 => b[2] <= 159)
            THEN 3 ELSE 0
        ELSE IF b1 >= 240 /\ b1 <= 244 THEN
            IF /\ n >= 4
               /\ IsCont(b[2])
               /\ IsCont(b[3])
               /\ IsCont(b[4])
               /\ (b1 = 240 => b[2] >= 144)
               /\ (b1 = 244 => b[2] <= 143)
            THEN 4 ELSE 0
        ELSE 0

\* the code point of a well-formed sequence of k bytes at the head of b
Utf8Point(b, k) ==
    IF k = 1 THEN b[1]
    ELSE IF k = 2 THEN (b[1] - 192) * 64 + (b[2] - 128)
    ELSE IF k = 3 THEN (b[1] - 224) * 4096 + (b[2] - 128) * 64 + (b[3] - 128)
    ELSE (b[1] - 240) * 262144 + (b[2] - 128) * 4096 + (b[3] - 128) * 64 + (b[4] - 128)

RECURSIVE Utf8Valid(_)
\* whether bytes.decode("utf-8") succeeds
Utf8Valid(b) ==
    IF b = <<>> THEN TRUE
    ELSE LET k == Utf8Len(b)
         IN  k > 0 /\ Utf8Valid(SubSeq(b, k + 1, Len(b)))

RECURSIVE Utf8Decode(_)
\* the text of a byte string that Utf8Valid accepts
Utf8Decode(b) ==
    IF b = <<>> THEN <<>>
    ELSE LET k == Utf8Len(b)
         IN  <<Utf8Point(b, k)>> \o Utf8Decode(SubSeq(b, k + 1, Len(b)))

\* C11 mutant: the NUL padding of the field is kept
UntilNul_Whole(raw) == raw

\* raw.split(b"\x00")[0]: the bytes before the first NUL
UntilNul(raw) ==
    LET nuls == {i \in 1..Len(raw) : raw[i] = 0}
    IN  IF nuls = {} THEN raw
        ELSE SubSeq(raw, 1, (CHOOSE i \in nuls : \A j \in nuls : i <= j) - 1)

-----------------------------------------------------------------------------
(* src/obj/btpairing.py                                                    *)

\* BtPairing.MAGIC = b"BTPAIREDINFOHEAD"
BP_MAGIC == <<66, 84, 80, 65, 73, 82, 69, 68, 73, 78, 70, 79, 72, 69, 65, 68>>
\* BtPairing.HDR_SIZE = len(MAGIC)
BP_HDR_SIZE == Len(BP_MAGIC)
\* BtPairing.Entry.SIZE = struct.calcsize("<16s6s32sB")
ENTRY_SIZE == 16 + 6 + 32 + 1

\* BtPairing.Entry(): the default entry
EmptyEntry == [link_key |-> <<>>, bt_mac |-> <<>>, bt_name |-> <<>>, is_valid |-> FALSE]

\* BtPairing.Entry.load on exactly ENTRY_SIZE bytes: [ok, entry]
EntryLoad(data) ==
    LET raw_name == UntilNul(SubSeq(data, 23, 54))
    IN  IF ~Utf8Valid(raw_name)
        THEN [ok |-> FALSE, entry |-> EmptyEntry]
        ELSE [ok |-> TRUE,
              entry |-> [link_key |-> SubSeq(data, 1, 16),
                         bt_mac   |-> Reversed(SubSeq(data, 17, 22)),
                         bt_name  |-> Utf8Decode(raw_name),
                         is_valid |-> (data[55] = 1)]]

\* C8 mutant: the address is stored in the order it is held, not reversed
EntryBytes_MacNotReversed(e) ==
    PackS(e.link_key, 16) \o PackS(e.bt_mac, 6)
        \o PackS(Utf8Encode(e.bt_name), 32) \o <<IF e.is_valid THEN 1 ELSE 0>>

\* BtPairing.Entry.__bytes__
EntryBytes(e) ==
    PackS(e.link_key, 16) \o PackS(Reversed(e.bt_mac), 6)
        \o PackS(Utf8Encode(e.bt_name), 32) \o <<IF e.is_valid THEN 1 ELSE 0>>

\* BtPairing.length
BtPairingLength(b) == Len(BP_MAGIC) + Len(b.entries) * ENTRY_SIZE + 1

\* BtPairing.__bytes__ (paired_idx is always within 0..255 in the model)
BtPairingBytes(b) ==
    BP_MAGIC \o Concat([i \in 1..Len(b.entries) |-> EntryBytes(b.entries[i])])
        \o <<b.paired_idx>>

RECURSIVE ReadEntries_AnyNonZero(_, _, _)
\* C21 mutant: a record is accepted when its is_valid byte is not 0
ReadEntries_AnyNonZero(data, off, acc) ==
    IF Len(data) - off < ENTRY_SIZE
    THEN [err |-> "none", entries |-> acc, off |-> off]
    ELSE LET entry_data == Slice(data, off, off + ENTRY_SIZE)
         IN  IF entry_data[ENTRY_SIZE] = 0
             THEN [err |-> "none", entries |-> acc, off |-> off]
             ELSE LET r == EntryLoad(entry_data)
                  IN  IF ~r.ok
                      THEN [err |-> "InvalidEncoding", entries |-> acc, off |-> off]
                      ELSE ReadEntries_AnyNonZero(data, off + ENTRY_SIZE,
                                                  Append(acc, r.entry))

RECURSIVE ReadEntries(_, _, _)
\* the while loop of BtPairing.load from offset off with the entries read so
\* far: [err, entries, off]
ReadEntries(data, off, acc) ==
    IF Len(data) - off < ENTRY_SIZE
    THEN [err |-> "none", entries |-> acc, off |-> off]
    ELSE LET entry_data == Slice(data, off, off + ENTRY_SIZE)
         IN  IF entry_data[ENTRY_SIZE] # 1
             THEN [err |-> "none", entries |-> acc, off |-> off]
             ELSE LET r == EntryLoad(entry_data)
                  IN  IF ~r.ok
                      THEN [err |-> "InvalidEncoding", entries |-> acc, off |-> off]
                      ELSE ReadEntries(data, off + ENTRY_SIZE, Append(acc, r.entry))

\* C10 mutant: a stream without a valid first record loads as an empty list
BtPairingLoad_NoEmptyCheck(data, old_idx) ==
    IF Len(data) < BP_HDR_SIZE + ENTRY_SIZE + 1
    THEN [err |-> "Truncated", bp |-> [entries |-> <<>>, paired_idx |-> old_idx]]
    ELSE IF ~MatchAt(data, BP_MAGIC, 0)
    THEN [err |-> "InvalidMagic", bp |-> [entries |-> <<>>, paired_idx |-> old_idx]]
    ELSE LET r == ReadEntries(data, Len(BP_MAGIC), <<>>)
         IN  IF r.err # "none"
             THEN [err |-> r.err, bp |-> [entries |-> r.entries, paired_idx |-> old_idx]]
             ELSE IF Len(data) - r.off < 1
             THEN [err |-> "Truncated", bp |-> [entries |-> r.entries, paired_idx |-> old_idx]]
             ELSE [err |-> "none",
                   bp |-> [entries |-> r.entries, paired_idx |-> data[r.off + 1]]]

\* BtPairing.load on an object whose paired_idx is old_idx: [err, bp].  The
\* entry list is cleared first, so a failed load leaves what was read so far.
BtPairingLoad(data, old_idx) ==
    IF Len(data) < BP_HDR_SIZE + ENTRY_SIZE + 1
    THEN [err |-> "Truncated", bp |-> [entries |-> <<>>, paired_idx |-> old_idx]]
    ELSE IF ~MatchAt(data, BP_MAGIC, 0)
    THEN [err |-> "InvalidMagic", bp |-> [entries |-> <<>>, paired_idx |-> old_idx]]
    ELSE LET r == ReadEntries(data, Len(BP_MAGIC), <<>>)
         IN  IF r.err # "none"
             THEN [err |-> r.err, bp |-> [entries |-> r.entries, paired_idx |-> old_idx]]
             ELSE IF r.entries = <<>>
             THEN [err |-> "Empty", bp |-> [entries |-> <<>>, paired_idx |-> old_idx]]
             ELSE IF Len(data) - r.off < 1
             THEN [err |-> "Truncated", bp |-> [entries |-> r.entries, paired_idx |-> old_idx]]
             ELSE [err |-> "none",
                   bp |-> [entries |-> r.entries, paired_idx |-> data[r.off + 1]]]

\* BtPairing(): the object the program starts with
BtPairingNew == [entries |-> <<EmptyEntry>>, paired_idx |-> 0]

-----------------------------------------------------------------------------
(* src/common.py                                                           *)

\* Command line values are text: sequences of code points.

\* whether int(text) succeeds: an optional sign and at least one decimal
\* digit (the surrounding blanks and the underscores that int() also accepts
\* are not drawn by the model)
IsInt(text) ==
    LET body == IF text # <<>> /\ text[1] \in {43, 45} THEN Tail(text) ELSE text
    IN  body # <<>> /\ \A i \in 1..Len(body) : body[i] \in 48..57

RECURSIVE DecimalValue(_)
DecimalValue(digits) ==
    IF digits = <<>> THEN 0
    ELSE 10 * DecimalValue(SubSeq(digits, 1, Len(digits) - 1)) + (digits[Len(digits)] - 48)

\* int(text) for a text that IsInt accepts
Atoi(text) ==
    IF text[1] = 45 THEN 0 - DecimalValue(Tail(text))
    ELSE IF text[1] = 43 THEN DecimalValue(Tail(text))
    ELSE DecimalValue(text)

\* indices_atoi_list: [ok, idx]; ok = FALSE is the None result
indices_atoi_list(src, max_val) ==
    IF \E k \in 1..Len(src) : ~IsInt(src[k]) \/ (IsInt(src[k]) /\ Atoi(src[k]) > max_val)
    THEN [ok |-> FALSE, idx |-> <<>>]
    ELSE [ok |-> TRUE, idx |-> SortedReverse([k \in 1..Len(src) |-> Atoi(src[k])])]

\* text.replace(":", "").replace(" ", "").lower()
HexCleaned(text) ==
    LET kept == SelectSeq(text, LAMBDA c : c # 58 /\ c # 32)
    IN  [i \in 1..Len(kept) |-> IF kept[i] \in 65..90 THEN kept[i] + 32 ELSE kept[i]]

IsHexDigit(c) == c \in 48..57 \/ c \in 97..102
HexDigit(c) == IF c \in 48..57 THEN c - 48 ELSE c - 87

\* whether bytes.fromhex accepts the cleaned text: pairs of hex digits
IsHex(text) ==
    /\ Len(text) % 2 = 0
    /\ \A i \in 1..Len(text) : IsHexDigit(text[i])

\* bytes.fromhex(text) for a text that IsHex accepts
FromHex(text) ==
    [i \in 1..(Len(text) \div 2) |-> 16 * HexDigit(text[2 * i - 1]) + HexDigit(text[2 * i])]

\* typing.get_type_hints of BtInfo and of BtPairing.Entry
TypeHint(var_name) ==
    CASE var_name \in {"flags", "mic_unmute_thresh", "mic_mute_thresh",
                       "mic_mute_duration", "checksum"} -> "int"
      [] var_name \in {"bt_mac", "link_key"} -> "bytes"
      [] var_name = "bt_name" -> "str"
      [] var_name = "is_valid" -> "bool"
      [] OTHER -> "none"

\* a range(lo, hi + 1) argument is <<lo, hi>>, and <<>> when it is not given
InRange(v, rng) == rng = <<>> \/ (v >= rng[1] /\ v <= rng[2])

\* text.lower() on the letters the boolean tokens are made of
Lower(text) == [i \in 1..Len(text) |-> IF text[i] \in 65..90 THEN text[i] + 32 ELSE text[i]]

\* set_variable: [err, value]; with err = "none" the field is set to value.
\* The messages of the str and bool branches read the local variable value,
\* which those branches never assign.
set_variable(var_name, var_value, val_range, len_range) ==
    LET var_type == TypeHint(var_name)
    IN  IF var_type = "int"
        THEN IF ~IsInt(var_value) THEN [err |-> "ValueError", value |-> <<>>]
             ELSE IF ~InRange(Atoi(var_value), val_range)
             THEN [err |-> "AppotechError", value |-> <<>>]
             ELSE [err |-> "none", value |-> Atoi(var_value)]
        ELSE IF var_type = "bytes"
        THEN LET cleaned == HexCleaned(var_value)
             IN  IF ~IsHex(cleaned) THEN [err |-> "ValueError", value |-> <<>>]
                 ELSE IF ~InRange(Len(FromHex(cleaned)), len_range)
                 THEN [err |-> "AppotechError", value |-> <<>>]
                 ELSE [err |-> "none", value |-> FromHex(cleaned)]
        ELSE IF var_type = "str"
        THEN IF ~InRange(Len(var_value), len_range)
             THEN [err |-> "UnboundLocalError", value |-> <<>>]
             ELSE [err |-> "none", value |-> var_value]
        ELSE IF var_type = "bool"
        THEN IF Lower(var_value) \in {<<49>>, <<116, 114, 117, 101>>}
             THEN [err |-> "none", value |-> TRUE]
             ELSE IF Lower(var_value) \in {<<48>>, <<102, 97, 108, 115, 101>>}
             THEN [err |-> "none", value |-> FALSE]
             ELSE [err |-> "UnboundLocalError", value |-> <<>>]
        ELSE [err |-> "AppotechError", value |-> <<>>]

-----------------------------------------------------------------------------
(* src/obj/btinfo.py                                                       *)

\* BtInfo.MAGIC = b"BTINF"
BTINFO_MAGIC == <<66, 84, 73, 78, 70>>
\* BtInfo.SIZE = len(MAGIC) + struct.calcsize("<xBBBB4x32s6s10xH")
BTINFO_SIZE == Len(BTINFO_MAGIC) + (1 + 4 + 4 + 32 + 6 + 10 + 2)

\* BtInfo(): the default record
BtInfoNew ==
    [flags |-> 0, mic_unmute_thresh |-> 0, mic_mute_thresh |-> 0, mic_mute_duration |-> 0,
     bt_name |-> <<>>, bt_mac |-> Fill(6, 0), checksum |-> 0]

RECURSIVE SumBytes(_)
\* sum(data)
SumBytes(data) == IF data = <<>> THEN 0 ELSE Head(data) + SumBytes(Tail(data))

\* C14 mutant: a stored checksum that differs from the sum is an error
BtInfoLoad_ChecksumEnforced(data, old) ==
    IF Len(data) < BTINFO_SIZE THEN [err |-> "Truncated", btinfo |-> old]
    ELSE IF ~MatchAt(data, BTINFO_MAGIC, 0) THEN [err |-> "InvalidMagic", btinfo |-> old]
    ELSE IF ReadU16(data, 62) # SumBytes(SubSeq(data, 1, 62))
    THEN [err |-> "InvalidChecksum", btinfo |-> old]
    ELSE LET raw_name == UntilNul(SubSeq(data, 15, 46))
         IN  IF ~Utf8Valid(raw_name) THEN [err |-> "InvalidEncoding", btinfo |-> old]
             ELSE [err |-> "none",
                   btinfo |-> [flags |-> data[7],
                               mic_unmute_thresh |-> data[8],
                               mic_mute_thresh |-> data[9],
                               mic_mute_duration |-> data[10],
                               bt_name |-> Utf8Decode(raw_name),
                               bt_mac |-> Reversed(SubSeq(data, 47, 52)),
                               checksum |-> ReadU16(data, 62)]]

\* BtInfo.load on an object old: [err, btinfo]
BtInfoLoad(data, old) ==
    IF Len(data) < BTINFO_SIZE THEN [err |-> "Truncated", btinfo |-> old]
    ELSE IF ~MatchAt(data, BTINFO_MAGIC, 0) THEN [err |-> "InvalidMagic", btinfo |-> old]
    ELSE LET raw_name == UntilNul(SubSeq(data, 15, 46))
         IN  IF ~Utf8Valid(raw_name) THEN [err |-> "InvalidEncoding", btinfo |-> old]
             ELSE [err |-> "none",
                   btinfo |-> [flags |-> data[7],
                               mic_unmute_thresh |-> data[8],
                               mic_mute_thresh |-> data[9],
                               mic_mute_duration |-> data[10],
                               bt_name |-> Utf8Decode(raw_name),
                               bt_mac |-> Reversed(SubSeq(data, 47, 52)),
                               checksum |-> ReadU16(data, 62)]]

\* C12 mutant: the checksum field of the record is written as it is
BtInfoBytes_StoredChecksum(r) ==
    BTINFO_MAGIC \o <<0>>
        \o <<r.flags, r.mic_unmute_thresh, r.mic_mute_thresh, r.mic_mute_duration>>
        \o Fill(4, 0) \o PackS(Utf8Encode(r.bt_name), 32)
        \o PackS(Reversed(r.bt_mac), 6) \o Fill(10, 0) \o U16LE(r.checksum)

\* BtInfo.__bytes__ (the integer fields are within 0..255 in the model)
BtInfoBytes(r) ==
    LET data_without_checksum ==
            BTINFO_MAGIC \o <<0>>
                \o <<r.flags, r.mic_unmute_thresh, r.mic_mute_thresh, r.mic_mute_duration>>
                \o Fill(4, 0) \o PackS(Utf8Encode(r.bt_name), 32)
                \o PackS(Reversed(r.bt_mac), 6) \o Fill(10, 0)
    IN  data_without_checksum \o U16LE(SumBytes(data_without_checksum))

BTINFO_CONFIGURABLES ==
    {"flags", "mic_unmute_thresh", "mic_mute_thresh", "mic_mute_duration", "bt_name", "bt_mac"}

-----------------------------------------------------------------------------
(* appotech-btinfo.py                                                      *)

\* one pair of assign_values: [err, btinfo]
BiAssignOne(r, field, value) ==
    LET res == IF field \in {"flags", "mic_unmute_thresh", "mic_mute_thresh",
                             "mic_mute_duration"}
               THEN set_variable(field, value, <<0, 255>>, <<>>)
               ELSE IF field = "bt_name" THEN set_variable(field, value, <<>>, <<0, 32>>)
               ELSE IF field = "bt_mac" THEN set_variable(field, value, <<>>, <<6, 6>>)
               ELSE [err |-> "UnknownField", value |-> <<>>]
    IN  IF res.err # "none" THEN [err |-> res.err, btinfo |-> r]
        ELSE [err |-> "none", btinfo |-> [r EXCEPT ![field] = res.value]]

RECURSIVE BiAssignPairs(_, _)
\* the for loop of assign_values over split_in_chunks(values, 2): [err, btinfo]
BiAssignPairs(r, values) ==
    IF values = <<>> THEN [err |-> "none", btinfo |-> r]
    ELSE LET one == BiAssignOne(r, values[1], values[2])
         IN  IF one.err # "none" THEN one
             ELSE BiAssignPairs(one.btinfo, SubSeq(values, 3, Len(values)))

\* AppotechBtInfo.assign_values: [err, btinfo]
BiAssignAll(r, values) ==
    IF Len(values) % 2 # 0 THEN [err |-> "InvalidPairs", btinfo |-> r]
    ELSE BiAssignPairs(r, values)

RECURSIVE BiClearAll(_, _)
\* the for loop of clear_values: [err, btinfo]
BiClearAll(r, fields) ==
    IF fields = <<>> THEN [err |-> "none", btinfo |-> r]
    ELSE IF Head(fields) \notin BTINFO_CONFIGURABLES THEN [err |-> "UnknownField", btinfo |-> r]
    ELSE BiClearAll([r EXCEPT ![Head(fields)] = BtInfoNew[Head(fields)]], Tail(fields))

\* AppotechBtInfo.save_output: [err, files]
BiSaveOutput(a, r, input, off_start, off_end) ==
    LET blob  == BtInfoBytes(r)
        first == IF a.output_path THEN <<[path |-> "output_path", data |-> blob]>> ELSE <<>>
    IN  IF ~a.mod_path THEN [err |-> "none", files |-> first]
        ELSE IF ~a.input_path THEN [err |-> "AttributeError", files |-> first]
        ELSE [err |-> "none",
              files |-> Append(first, [path |-> "mod_path",
                                       data |-> Slice(input, 0, off_start) \o blob
                                                    \o SliceFrom(input, off_end)])]

\* main(), line 100 and lines 101-113: load_input, then the early exit of -p
BiLoadInput ==
    /\ prog = "btinfo"
    /\ pc = "load_input"
    /\ input_binary' = IF args.input_path THEN fs.input_path ELSE input_binary
    /\ LET found == Find(fs.input_path, BTINFO_MAGIC, 0)
           r == IF ~args.input_path THEN [err |-> "none", btinfo |-> btinfo]
                ELSE IF found = -1 THEN [err |-> "NotFound", btinfo |-> btinfo]
                ELSE IF found + BTINFO_SIZE > Len(fs.input_path)
                THEN [err |-> "Truncated", btinfo |-> btinfo]
                ELSE BtInfoLoad(Slice(fs.input_path, found, found + BTINFO_SIZE), btinfo)
           only_print ==
               /\ args.print_input
               /\ args.assign_values = <<>>
               /\ args.clear_values = <<>>
               /\ ~args.print_output
               /\ ~args.output_path
               /\ ~args.mod_path
       IN  /\ btinfo' = r.btinfo
           /\ err' = r.err
           /\ btinfo_off_start' = IF ~args.input_path THEN 0
                                  ELSE IF found # -1 THEN found ELSE btinfo_off_start
           /\ btinfo_off_end' = IF ~args.input_path THEN BTINFO_SIZE
                                ELSE IF found # -1 THEN found + BTINFO_SIZE ELSE btinfo_off_end
           /\ btinfo_hash' = IF r.err = "none" THEN BtInfoBytes(r.btinfo) ELSE btinfo_hash
           /\ pc' = IF r.err # "none" \/ only_print THEN "exit" ELSE "assign_values"
    /\ UNCHANGED <<runVars, instVars, files, bpVars, sfxVars, codecVars>>

\* main(), lines 115-116
BiAssignValues ==
    /\ prog = "btinfo"
    /\ pc = "assign_values"
    /\ LET r == BiAssignAll(btinfo, args.assign_values)
       IN  /\ btinfo' = r.btinfo
           /\ err' = r.err
           /\ pc' = IF r.err = "none" THEN "clear_values" ELSE "exit"
    /\ UNCHANGED <<runVars, instVars, input_binary, files, btinfo_off_start, btinfo_off_end,
                   btinfo_hash, bpVars, sfxVars, codecVars>>

\* main(), lines 117-118
BiClearValues ==
    /\ prog = "btinfo"
    /\ pc = "clear_values"
    /\ LET r == BiClearAll(btinfo, args.clear_values)
       IN  /\ btinfo' = r.btinfo
           /\ err' = r.err
           /\ pc' = IF r.err = "none" THEN "print_output" ELSE "exit"
    /\ UNCHANGED <<runVars, instVars, input_binary, files, btinfo_off_start, btinfo_off_end,
                   btinfo_hash, bpVars, sfxVars, codecVars>>

\* main(), lines 120-131
BiPrintOutput ==
    /\ prog = "btinfo"
    /\ pc = "print_output"
    /\ LET unchanged == args.print_output /\ btinfo_hash = BtInfoBytes(btinfo)
           no_output == ~args.output_path /\ ~args.mod_path
       IN  /\ pc' = IF unchanged \/ no_output THEN "exit" ELSE "save_output"
           /\ err' = IF ~unchanged /\ no_output THEN "NoOutputPath" ELSE "none"
    /\ UNCHANGED <<runVars, instVars, input_binary, files, bpVars, sfxVars, infoVars, codecVars>>

\* main(), line 132
BiSaveOutputStep ==
    /\ prog = "btinfo"
    /\ pc = "save_output"
    /\ LET r == BiSaveOutput(args, btinfo, input_binary, btinfo_off_start, btinfo_off_end)
       IN  /\ files' = files \o r.files
           /\ err' = r.err
           /\ pc' = IF r.err = "none" THEN "done" ELSE "exit"
    /\ UNCHANGED <<runVars, instVars, input_binary, bpVars, sfxVars, infoVars, codecVars>>

-----------------------------------------------------------------------------
(* appotech-btpairing.py                                                   *)

RECURSIVE InsertAll(_, _)
\* the for loop of add_entries: insert an empty entry at each index in turn
InsertAll(entries, idx) ==
    IF idx = <<>> THEN entries
    ELSE InsertAll(ListInsert(entries, Head(idx), EmptyEntry), Tail(idx))

\* AppotechBtPairing.add_entries: [ok, entries]
add_entries(entries, tokens) ==
    LET r == indices_atoi_list(tokens, Len(entries))
    IN  IF ~r.ok \/ r.idx = <<>>
        THEN [ok |-> FALSE, entries |-> entries]
        ELSE [ok |-> TRUE, entries |-> InsertAll(entries, r.idx)]

\* the list comprehension of delete_entries
KeepNotIn(entries, idx) ==
    LET keep == {i \in 1..Len(entries) : (i - 1) \notin Range(idx)}
        pos(k) == CHOOSE i \in keep : Cardinality({j \in keep : j < i}) = k - 1
    IN  [k \in 1..Cardinality(keep) |-> entries[pos(k)]]

\* C7 mutant: only the index the caller gave first is deleted
delete_entries_FirstGivenOnly(entries, tokens) ==
    LET r == indices_atoi_list(tokens, Len(entries))
    IN  IF ~r.ok \/ r.idx = <<>>
        THEN [ok |-> FALSE, entries |-> entries]
        ELSE [ok |-> TRUE, entries |-> KeepNotIn(entries, <<Atoi(tokens[1])>>)]

\* AppotechBtPairing.delete_entries: [ok, entries]
delete_entries(entries, tokens) ==
    LET r == indices_atoi_list(tokens, Len(entries))
    IN  IF ~r.ok \/ r.idx = <<>>
        THEN [ok |-> FALSE, entries |-> entries]
        ELSE [ok |-> TRUE, entries |-> KeepNotIn(entries, r.idx)]

\* C3 mutant: a larger sector is injected as if force were always set
BpReconcile_AlwaysForced(blob, input, off, size, force) ==
    IF Len(blob) > size
    THEN LET delta == off + Len(blob) - Len(input)
         IN  [err |-> "none",
              blob |-> IF delta > 0 THEN Slice(blob, 0, Len(blob) - delta) ELSE blob]
    ELSE IF Len(blob) < size
    THEN LET padding_sz == Len(blob) - size
         IN  [err |-> "none", blob |-> blob \o Fill(padding_sz, 255)]
    ELSE [err |-> "none", blob |-> blob]

\* the size reconciliation of save_output (lines 333-361): [err, blob]
BpReconcile(blob, input, off, size, force) ==
    IF Len(blob) > size
    THEN IF force
         THEN LET delta == off + Len(blob) - Len(input)
              IN  [err |-> "none",
                   blob |-> IF delta > 0 THEN Slice(blob, 0, Len(blob) - delta) ELSE blob]
         ELSE [err |-> "Overflow", blob |-> blob]
    ELSE IF Len(blob) < size
    THEN LET padding_sz == Len(blob) - size
         IN  [err |-> "none", blob |-> blob \o Fill(padding_sz, 255)]
    ELSE [err |-> "none", blob |-> blob]

\* C26 mutant: what follows the replaced region is dropped
SpliceAt_DropTail(input, off, blob) == Slice(input, 0, off) \o blob

\* input[:off] + blob + input[off + len(blob):]
SpliceAt(input, off, blob) ==
    Slice(input, 0, off) \o blob \o SliceFrom(input, off + Len(blob))

\* AppotechBtPairing.save_output: [err, files], files in the order written
BpSaveOutput(a, b, input, off, size) ==
    LET blob  == BtPairingBytes(b)
        first == IF a.output_path THEN <<[path |-> "output_path", data |-> blob]>> ELSE <<>>
    IN  IF ~a.mod_path THEN [err |-> "none", files |-> first]
        ELSE IF ~a.input_path
        THEN [err |-> "AttributeError", files |-> first]
        ELSE LET r == BpReconcile(blob, input, off, size, a.force_write_mod)
             IN  IF r.err # "none" THEN [err |-> r.err, files |-> first]
                 ELSE [err |-> "none",
                       files |-> Append(first, [path |-> "mod_path",
                                                data |-> SpliceAt(input, off, r.blob)])]

\* main(), line 140 and lines 141-156: load_input, then the early exit of -p
BpLoadInput ==
    /\ prog = "btpairing"
    /\ pc = "load_input"
    /\ input_binary' = IF args.input_path THEN fs.input_path ELSE input_binary
    /\ LET found == Find(fs.input_path, BP_MAGIC, 0)
           r == IF ~args.input_path THEN [err |-> "none", bp |-> bp]
                ELSE IF found = -1 THEN [err |-> "NotFound", bp |-> bp]
                ELSE BtPairingLoad(SliceFrom(fs.input_path, found), bp.paired_idx)
           only_print ==
               /\ args.print_input
               /\ args.add_entries = <<>>
               /\ args.delete_entries = <<>>
               /\ args.assign_values = <<>>
               /\ ~args.print_output
               /\ ~args.output_path
               /\ ~args.mod_path
       IN  /\ bp' = r.bp
           /\ err' = r.err
           /\ bp_off_start' = IF args.input_path /\ found # -1 THEN found ELSE bp_off_start
           /\ bp_hash' = IF r.err = "none" THEN BtPairingBytes(r.bp) ELSE bp_hash
           /\ bp_size' = IF r.err = "none" THEN BtPairingLength(r.bp) ELSE bp_size
           /\ pc' = IF r.err # "none" \/ only_print THEN "exit" ELSE "add_entries"
    /\ prev_entries' = bp'.entries
    /\ UNCHANGED <<runVars, instVars, files, sfxVars, infoVars, codecVars>>

\* main(), lines 158-159
BpAddEntries ==
    /\ prog = "btpairing"
    /\ pc = "add_entries"
    /\ LET r == IF args.add_entries = <<>> THEN [ok |-> TRUE, entries |-> bp.entries]
                ELSE add_entries(bp.entries, args.add_entries)
       IN  /\ bp' = [bp EXCEPT !.entries = r.entries]
           /\ err' = IF r.ok THEN "none" ELSE "InvalidIndex"
           /\ pc' = IF r.ok THEN "delete_entries" ELSE "exit"
    /\ prev_entries' = bp.entries
    /\ UNCHANGED <<runVars, instVars, input_binary, bp_off_start, bp_size, bp_hash, files,
                   sfxVars, infoVars, codecVars>>

\* one triple of assign_values (lines 250-277): [err, entries]
BpAssignOne(entries, index, field, value) ==
    LET idx == IF IsInt(index) THEN Atoi(index) ELSE 0
        at  == IF idx < 0 THEN idx + Len(entries) + 1 ELSE idx + 1
        res == IF field = "link_key" THEN set_variable(field, value, <<>>, <<0, 16>>)
               ELSE IF field = "bt_mac" THEN set_variable(field, value, <<>>, <<0, 6>>)
               ELSE IF field = "bt_name" THEN set_variable(field, value, <<>>, <<0, 32>>)
               ELSE IF field = "is_valid" THEN set_variable(field, value, <<>>, <<>>)
               ELSE [err |-> "UnknownField", value |-> <<>>]
    IN  IF ~IsInt(index) \/ idx > Len(entries)
        THEN [err |-> "InvalidIndex", entries |-> entries]
        ELSE IF at \notin 1..Len(entries) THEN [err |-> "IndexError", entries |-> entries]
        ELSE IF res.err # "none" THEN [err |-> res.err, entries |-> entries]
        ELSE [err |-> "none", entries |-> [entries EXCEPT ![at][field] = res.value]]

RECURSIVE BpAssignTriples(_, _)
\* the for loop of assign_values over split_in_chunks(values, 3): [err, entries]
BpAssignTriples(entries, values) ==
    IF values = <<>> THEN [err |-> "none", entries |-> entries]
    ELSE LET one == BpAssignOne(entries, values[1], values[2], values[3])
         IN  IF one.err # "none" THEN one
             ELSE BpAssignTriples(one.entries, SubSeq(values, 4, Len(values)))

\* main(), lines 162-163, for a command line with -S
BpAssignValues ==
    /\ prog = "btpairing"
    /\ pc = "assign_values"
    /\ LET r == IF Len(args.assign_values) % 3 # 0
                THEN [err |-> "InvalidTriples", entries |-> bp.entries]
                ELSE BpAssignTriples(bp.entries, args.assign_values)
       IN  /\ bp' = [bp EXCEPT !.entries = r.entries]
           /\ err' = r.err
           /\ pc' = IF r.err # "none" THEN "exit"
                    ELSE IF args.clear_values # <<>> THEN "clear_values"
                    ELSE "print_output"
    /\ UNCHANGED <<runVars, instVars, input_binary, bp_off_start, bp_size, bp_hash, prev_entries,
                   files, sfxVars, infoVars, codecVars>>

RECURSIVE BpClearFrom(_, _)
\* the for loop of clear_values over split_in_chunks(values, 2): [err, entries].
\* A last chunk of one value cannot be unpacked into index and field.
BpClearFrom(entries, values) ==
    IF values = <<>> THEN [err |-> "none", entries |-> entries]
    ELSE IF Len(values) = 1 THEN [err |-> "ValueError", entries |-> entries]
    ELSE LET index == values[1]
             field == values[2]
             idx == IF IsInt(index) THEN Atoi(index) ELSE 0
             at  == IF idx < 0 THEN idx + Len(entries) + 1 ELSE idx + 1
         IN  IF ~IsInt(index) \/ idx > Len(entries)
             THEN [err |-> "InvalidIndex", entries |-> entries]
             ELSE IF at \notin 1..Len(entries) THEN [err |-> "IndexError", entries |-> entries]
             ELSE IF field \notin {"link_key", "bt_mac", "bt_name", "is_valid"}
             THEN [err |-> "UnknownField", entries |-> entries]
             ELSE BpClearFrom([entries EXCEPT ![at][field] = EmptyEntry[field]],
                              SubSeq(values, 3, Len(values)))

\* main(), lines 164-165, for a command line with -C
BpClearValues ==
    /\ prog = "btpairing"
    /\ pc = "clear_values"
    /\ LET r == BpClearFrom(bp.entries, args.clear_values)
       IN  /\ bp' = [bp EXCEPT !.entries = r.entries]
           /\ err' = r.err
           /\ pc' = IF r.err = "none" THEN "print_output" ELSE "exit"
    /\ UNCHANGED <<runVars, instVars, input_binary, bp_off_start, bp_size, bp_hash, prev_entries,
                   files, sfxVars, infoVars, codecVars>>

\* main(), lines 160-161 and the test of line 162; the command lines of the
\* model carry no -C or -x, so a run without -S goes on to the -P step
BpDeleteEntries ==
    /\ prog = "btpairing"
    /\ pc = "delete_entries"
    /\ LET r == IF args.delete_entries = <<>> THEN [ok |-> TRUE, entries |-> bp.entries]
                ELSE delete_entries(bp.entries, args.delete_entries)
       IN  /\ bp' = [bp EXCEPT !.entries = r.entries]
           /\ err' = IF r.ok THEN "none" ELSE "InvalidIndex"
           /\ pc' = IF ~r.ok THEN "exit"
                    ELSE IF args.assign_values # <<>> THEN "assign_values"
                    ELSE IF args.clear_values # <<>> THEN "clear_values"
                    ELSE "print_output"
    /\ prev_entries' = bp.entries
    /\ UNCHANGED <<runVars, instVars, input_binary, bp_off_start, bp_size, bp_hash, files,
                   sfxVars, infoVars, codecVars>>

\* main(), lines 169-180: -P with an unchanged structure ends the run, and
\* so does a run without any output path
BpPrintOutput ==
    /\ prog = "btpairing"
    /\ pc = "print_output"
    /\ LET unchanged == args.print_output /\ bp_hash = BtPairingBytes(bp)
           no_output == ~args.output_path /\ ~args.mod_path
       IN  /\ pc' = IF unchanged \/ no_output THEN "exit" ELSE "save_output"
           /\ err' = IF ~unchanged /\ no_output THEN "NoOutputPath" ELSE "none"
    /\ UNCHANGED <<runVars, instVars, input_binary, files, bpVars, sfxVars, infoVars, codecVars>>

\* main(), line 181
BpSaveOutputStep ==
    /\ prog = "btpairing"
    /\ pc = "save_output"
    /\ LET r == BpSaveOutput(args, bp, input_binary, bp_off_start, bp_size)
       IN  /\ files' = files \o r.files
           /\ err' = r.err
           /\ pc' = IF r.err = "none" THEN "done" ELSE "exit"
    /\ UNCHANGED <<runVars, instVars, input_binary, bpVars, sfxVars, infoVars, codecVars>>

-----------------------------------------------------------------------------
(* src/obj/sfx.py                                                          *)

\* SfxBlob.MAGIC = b"\x00\x08\x00\x00"
SFX_MAGIC == <<0, 8, 0, 0>>
\* SfxBlob.HDR_SIZE = 0x800
SFX_HDR_SIZE == 2048
\* AbstractSfxEntry.SIZE = struct.calcsize("<IHH")
DESC_SIZE == 8
\* AbstractSfxEntry.CHUNK_SIZE = 0x100
CHUNK_SIZE == 256
\* WavSfxEntry.WAV_TRAILER_SIZE = 0x100
WAV_TRAILER_SIZE == 256
\* WavSfxEntry.TRAILER_MAGIC = b"WAV\x00"
TRAILER_MAGIC == <<87, 65, 86, 0>>
\* SfxBlob.MAX_ENTRIES = HDR_SIZE // AbstractSfxEntry.SIZE
MAX_ENTRIES == SFX_HDR_SIZE \div DESC_SIZE

\* an entry object; fmt is the class (Mp3SfxEntry or WavSfxEntry)
SfxEntry(fmt, offset, size, samplerate) ==
    [fmt |-> fmt, offset |-> offset, size |-> size, samplerate |-> samplerate,
     contents |-> <<>>, trailer |-> <<>>, tr_samplerate |-> 0, tr_resolution |-> 0]

\* Mp3SfxEntry.total_size_in_bytes / WavSfxEntry.total_size_in_bytes
EntryTotalSize(e) ==
    IF e.fmt = "WAV" THEN e.size * CHUNK_SIZE + WAV_TRAILER_SIZE ELSE e.size * CHUNK_SIZE

\* AbstractSfxEntry.__bytes__
EntryHeader(e) == U32LE(e.offset) \o U16LE(e.size) \o U16LE(e.samplerate)

\* C17 mutant: a WAV entry is written without its trailer
EntryBody_NoTrailer(e) == e.contents

\* the second component of export_to_blob
EntryBody(e) == IF e.fmt = "WAV" THEN e.contents \o e.trailer ELSE e.contents

\* C20 mutant: no byte is changed
XorBytes_Never(b, xor) == b

\* bytes b ^ xor for xor = 0x80 or 0x00
XorBytes(b, xor) == [i \in 1..Len(b) |-> IF xor = 128 THEN (b[i] + 128) % 256 ELSE b[i]]

\* Mp3SfxEntry.import_from_blob / WavSfxEntry.import_from_blob: [err, entry]
EntryImportFromBlob(e, data) ==
    IF e.fmt = "MP3" THEN [err |-> "none", entry |-> [e EXCEPT !.contents = data]]
    ELSE LET last == SliceFrom(data, Max(Len(data) - WAV_TRAILER_SIZE, 0))
         IN  IF Slice(last, 0, 4) # TRAILER_MAGIC
             THEN [err |-> "none", entry |-> [e EXCEPT !.contents = data]]
             ELSE IF Len(last) # WAV_TRAILER_SIZE
             THEN [err |-> "Truncated",
                   entry |-> [e EXCEPT !.contents = data, !.trailer = last]]
             ELSE [err |-> "none",
                   entry |-> [e EXCEPT !.contents = Slice(data, 0, Len(data) - WAV_TRAILER_SIZE),
                                       !.trailer = last,
                                       !.tr_samplerate = last[5],
                                       !.tr_resolution = last[6]]]

\* C2 mutant: the padding is made of zero bytes whatever pad is
align_bytes_ZeroPad(src, align_to, pad) ==
    LET src_sz == Len(src)
        new_sz == ((src_sz + align_to - 1) \div align_to) * align_to
    IN  IF src_sz = new_sz THEN src ELSE src \o Fill(new_sz - src_sz, 0)

\* src/common.py align_bytes
align_bytes(src, align_to, pad) ==
    LET src_sz == Len(src)
        new_sz == ((src_sz + align_to - 1) \div align_to) * align_to
    IN  IF src_sz = new_sz THEN src ELSE src \o Fill(new_sz - src_sz, pad % 256)

\* Mp3SfxEntry.import_from_file / WavSfxEntry.import_from_file on the file
\* f = [ext, data, nchannels, sampwidth, framerate]; for a WAV file data are
\* the frames and the other fields what the wave module reports
EntryImportFromFile(f, offset) ==
    IF f.ext = "mp3"
    THEN LET contents == align_bytes(f.data, CHUNK_SIZE, 0)
         IN  [SfxEntry("MP3", offset, Len(contents) \div CHUNK_SIZE, 0)
                 EXCEPT !.contents = contents]
    ELSE LET tr_resolution == f.sampwidth * 8
             xor == IF tr_resolution = 8 THEN 128 ELSE 0
             tr_samplerate == f.framerate \div 1000
             contents == align_bytes(XorBytes(f.data, xor), CHUNK_SIZE, 0)
         IN  [SfxEntry("WAV", offset, Len(contents) \div CHUNK_SIZE, f.framerate)
                 EXCEPT !.contents = contents,
                        !.trailer = TRAILER_MAGIC \o <<tr_samplerate, tr_resolution>>
                                        \o Fill(250, 0),
                        !.tr_samplerate = tr_samplerate,
                        !.tr_resolution = tr_resolution]

RECURSIVE LoadFromFiles(_, _, _)
\* the for loop of SfxBlob.load_from_files with the running body_off
LoadFromFiles(entries, paths, body_off) ==
    IF paths = <<>> THEN entries
    ELSE LET entry == EntryImportFromFile(Head(paths), body_off)
         IN  LoadFromFiles(Append(entries, entry), Tail(paths),
                           body_off + EntryTotalSize(entry))

\* C23 mutant: the first payload is laid out at offset 0
load_from_files_FromZero(entries, paths) == LoadFromFiles(entries, paths, 0)

\* SfxBlob.load_from_files
load_from_files(entries, paths) == LoadFromFiles(entries, paths, SFX_HDR_SIZE)

RECURSIVE SumSizes(_)
SumSizes(entries) ==
    IF entries = <<>> THEN 0 ELSE EntryTotalSize(Head(entries)) + SumSizes(Tail(entries))

\* SfxBlob.total_size_in_bytes
SfxTotalSize(entries) == SFX_HDR_SIZE + SumSizes(entries)

\* bytearray slice assignment buf[a:b] = x for 0 <= a <= b
AssignSlice(buf, a, b, x) == Slice(buf, 0, a) \o x \o SliceFrom(buf, b)

RECURSIVE WriteEntries(_, _, _)
\* the for loop of SfxBlob.__bytes__
WriteEntries(result, entries, header_off) ==
    IF entries = <<>> THEN result
    ELSE LET e == Head(entries)
             r1 == AssignSlice(result, header_off, header_off + DESC_SIZE, EntryHeader(e))
             r2 == AssignSlice(r1, e.offset, e.offset + Len(EntryBody(e)), EntryBody(e))
         IN  WriteEntries(r2, Tail(entries), header_off + DESC_SIZE)

\* SfxBlob.__bytes__
SfxBlobBytes(entries) == WriteEntries(Fill(SfxTotalSize(entries), 0), entries, 0)

\* bytes(sb) together with the range check of struct.pack("<IHH", ...) in
\* AbstractSfxEntry.__bytes__: [err, data]
SfxEncode(entries) ==
    IF \E i \in 1..Len(entries) :
           \/ entries[i].offset \div 2^16 >= 2^16
           \/ entries[i].size >= 2^16
           \/ entries[i].samplerate >= 2^16
    THEN [err |-> "struct.error", data |-> <<>>]
    ELSE [err |-> "none", data |-> SfxBlobBytes(entries)]

\* Mp3SfxEntry.export_to_file / WavSfxEntry.export_to_file: [err, file]; a
\* WAV file is given as the wave module reads it back, in whole frames
EntryExportToFile(e) ==
    IF e.fmt = "MP3"
    THEN [err |-> "none",
          file |-> [ext |-> "mp3", data |-> e.contents,
                    nchannels |-> 0, sampwidth |-> 0, framerate |-> 0]]
    ELSE LET xor == IF e.tr_resolution = 8 THEN 128 ELSE 0
             sampwidth == e.tr_resolution \div 8
             framerate == e.tr_samplerate * 1000
             frames == XorBytes(e.contents, xor)
         IN  IF sampwidth < 1 \/ sampwidth > 4 \/ framerate <= 0
             THEN [err |-> "wave.Error", file |-> <<>>]
             ELSE [err |-> "none",
                   file |-> [ext |-> "wav",
                             data |-> Slice(frames, 0, (Len(frames) \div sampwidth) * sampwidth),
                             nchannels |-> 1, sampwidth |-> sampwidth,
                             framerate |-> framerate]]

RECURSIVE ReadTable(_, _, _)
\* the first for loop of SfxBlob.load: the entries of the descriptor table
\* from 0-based offset off on, up to the first all-zero descriptor
ReadTable(data, off, acc) ==
    IF off >= SFX_HDR_SIZE THEN acc
    ELSE LET e_offset == ReadU32(data, off)
             e_size == ReadU16(data, off + 4)
             e_samplerate == ReadU16(data, off + 6)
         IN  IF e_offset = 0 /\ e_size = 0 /\ e_samplerate = 0 THEN acc
             ELSE ReadTable(data, off + DESC_SIZE,
                            Append(acc, SfxEntry(IF e_samplerate # 0 THEN "WAV" ELSE "MP3",
                                                 e_offset, e_size, e_samplerate)))

RECURSIVE ImportEntries(_, _, _)
\* the second for loop of SfxBlob.load from the k-th entry on: [err, entries]
ImportEntries(data, entries, k) ==
    IF k > Len(entries) THEN [err |-> "none", entries |-> entries]
    ELSE LET entry == entries[k]
             size_check == EntryTotalSize(entry)
         IN  IF Len(data) < size_check THEN [err |-> "Truncated", entries |-> entries]
             ELSE LET r == EntryImportFromBlob(
                               entry, Slice(data, entry.offset, entry.offset + size_check))
                  IN  IF r.err # "none"
                      THEN [err |-> r.err, entries |-> [entries EXCEPT ![k] = r.entry]]
                      ELSE ImportEntries(data, [entries EXCEPT ![k] = r.entry], k + 1)

\* SfxBlob.load: [err, entries]
SfxLoad(data) ==
    IF Len(data) < SFX_HDR_SIZE THEN [err |-> "Truncated", entries |-> <<>>]
    ELSE ImportEntries(data, ReadTable(data, 0, <<>>), 1)

-----------------------------------------------------------------------------
(* appotech-sfx.py                                                         *)

\* number of zero bytes in data[off : off + SFX_HDR_SIZE]
Zeroes(data, off) ==
    Cardinality({i \in (off + 1)..Min(off + SFX_HDR_SIZE, Len(data)) : data[i] = 0})

\* the checks of extract_load_input on an occurrence of the magic at test_off:
\* aligned to 0x80, and zeroes > HDR_SIZE * 0.8
HeaderAccepted(data, test_off) ==
    /\ test_off % 128 = 0
    /\ ~(10 * Zeroes(data, test_off) <= 8 * SFX_HDR_SIZE)

RECURSIVE LocateFrom(_, _, _)
\* the loop of extract_load_input over find_all(hay, MAGIC), resumed behind
\* the occurrence at pos: the next occurrence is taken with hay.find(MAGIC,
\* pos + 1), skipped when a check fails, and ends the loop when both pass
LocateFrom(data, hay, pos) ==
    LET test_off == Find(hay, SFX_MAGIC, pos + 1)
    IN  IF test_off = -1 THEN -1
        ELSE IF HeaderAccepted(data, test_off) THEN test_off
        ELSE LocateFrom(data, hay, test_off)

\* C15 mutant: the whole image is searched
LocateSfx_WholeImage(data) == LocateFrom(data, data, -1)

\* the search of extract_load_input (lines 160-187) in data[:-HDR_SIZE];
\* sb_off_start stays -1 when no occurrence passes
LocateSfx(data) ==
    LocateFrom(data, Slice(data, 0, Max(Len(data) - SFX_HDR_SIZE, 0)), -1)

\* extract_load_input: [err, off, entries, size]
ExtractLoadInput(data) ==
    LET off == LocateSfx(data)
    IN  IF off = -1 THEN [err |-> "NotFound", off |-> -1, entries |-> <<>>, size |-> 0]
        ELSE LET r == SfxLoad(SliceFrom(data, off))
             IN  [err |-> r.err, off |-> off, entries |-> r.entries,
                  size |-> IF r.err = "none" THEN SfxTotalSize(r.entries) ELSE 0]

\* C4 mutant: a forced blob is never truncated
SfxReconcile_NoTruncation(blob, input, off, size, force) ==
    LET padded == IF Len(blob) < size THEN align_bytes(blob, size, 255) ELSE blob
    IN  IF Len(padded) > size
        THEN IF force
             THEN [err |-> "none", blob |-> padded]
             ELSE [err |-> "Overflow", blob |-> padded]
        ELSE [err |-> "none", blob |-> padded]

\* the size reconciliation of repack_inject_output (lines 308-333): [err, blob]
SfxReconcile(blob, input, off, size, force) ==
    LET padded == IF Len(blob) < size THEN align_bytes(blob, size, 255) ELSE blob
    IN  IF Len(padded) > size
        THEN IF force
             THEN LET delta == off + Len(padded) - Len(input)
                  IN  [err |-> "none", blob |-> Slice(padded, 0, Len(padded) - delta)]
             ELSE [err |-> "Overflow", blob |-> padded]
        ELSE [err |-> "none", blob |-> padded]

\* mode_repack, line 261: repack_load_input
SfxRepackLoadInput ==
    /\ prog = "sfx"
    /\ pc = "repack_load_input"
    /\ input_files' = fs.input_path
    /\ IF Len(fs.input_path) > MAX_ENTRIES
       THEN /\ err' = "TooManyEntries"
            /\ pc' = "exit"
            /\ sb' = sb
       ELSE /\ err' = "none"
            /\ pc' = "repack_save_output"
            /\ sb' = load_from_files(sb, fs.input_path)
    /\ UNCHANGED <<runVars, instVars, input_binary, files, sb_off_start, sb_size,
                   bpVars, infoVars, codecVars>>

\* mode_repack, lines 262-263: repack_save_output reads args.output_file,
\* which the parser never sets (the option is stored as output_path)
SfxRepackSaveOutput ==
    /\ prog = "sfx"
    /\ pc = "repack_save_output"
    /\ IF args.output_path
       THEN err' = "AttributeError" /\ pc' = "exit"
       ELSE err' = "none" /\ pc' = IF args.inject_path THEN "repack_inject_output" ELSE "done"
    /\ UNCHANGED <<runVars, instVars, input_binary, files, sfxVars, bpVars, infoVars, codecVars>>

\* mode_repack, lines 264-265: repack_inject_output
SfxRepackInjectOutput ==
    /\ prog = "sfx"
    /\ pc = "repack_inject_output"
    /\ LET blob == SfxBlobBytes(sb)
           l == ExtractLoadInput(fs.inject_path)
           r == SfxReconcile(blob, fs.inject_path, l.off, l.size, args.force_inject)
       IN  /\ input_binary' = fs.inject_path
           /\ sb' = l.entries
           /\ sb_off_start' = l.off
           /\ sb_size' = IF l.err = "none" THEN l.size ELSE sb_size
           /\ err' = IF l.err # "none" THEN l.err ELSE r.err
           /\ files' = IF l.err # "none" \/ r.err # "none" THEN files
                       ELSE Append(files, [path |-> "inject_path",
                                           data |-> SpliceAt(fs.inject_path, l.off, r.blob)])
           /\ wire' = blob
           /\ pc' = IF l.err = "none" /\ r.err = "none" THEN "done" ELSE "exit"
    /\ UNCHANGED <<runVars, instVars, input_files, bpVars, infoVars, decoded>>

-----------------------------------------------------------------------------
(* The input images and command lines of the btpairing runs.               *)

\* the variables of the other programs, which a run never touches
SfxIdle == sb = <<>> /\ sb_off_start = 0 /\ sb_size = 0 /\ input_files = <<>>
InfoIdle ==
    btinfo = BtInfoNew /\ btinfo_off_start = 0 /\ btinfo_off_end = 0 /\ btinfo_hash = <<>>
CodecIdle == wire = <<>> /\ decoded = <<>>
\* no object is constructed besides the program's own, and the default lists
\* play no part
InstIdle == default_entries = [BtPairing |-> <<>>, SfxBlob |-> <<>>] /\ instances = <<>>
BpIdle ==
    /\ bp = BtPairingNew
    /\ bp_off_start = 0
    /\ bp_size = 0
    /\ bp_hash = <<>>
    /\ prev_entries = <<>>

\* the raw name field of the k-th record of an image
RawName(k) ==
    CASE k = 1 -> PackS(<<65, 66>>, 32)
      [] k = 2 -> PackS(<<195, 169, 0, 85, 85>>, 32)
      [] OTHER -> Fill(32, 64 + k)

\* the k-th 55-byte record of an image, with the given is_valid byte
RawRecord(k, valid) ==
    Fill(16, 17 * k) \o [i \in 1..6 |-> 16 * k + i] \o RawName(k) \o <<valid>>

\* a firmware image: Pre bytes, the magic, n records of which the bad-th (if
\* any) carries the is_valid byte badByte, then tail
PairingImage(pre, n, bad, badByte, tail) ==
    Fill(pre, 165) \o BP_MAGIC
        \o Concat([k \in 1..n |-> RawRecord(k, IF k = bad THEN badByte ELSE 1)])
        \o tail

\* what may follow the records: nothing (kind 0), the paired_idx byte alone
\* (kind 1), or the paired_idx byte and an unparsed region (kind 2)
PairingTail(kind) ==
    CASE kind = 0 -> <<>>
      [] kind = 1 -> <<2>>
      [] OTHER -> <<2>> \o Fill(PostLen, 90)

\* <<length of the region in front, kind of tail>>
ImageShapes == {<<0, 0>>, <<0, 1>>, <<PreLen, 1>>, <<0, 2>>, <<PreLen, 2>>}

PairingImages ==
    {Fill(PreLen, 165)} \cup
    {PairingImage(sh[1], n, bad, bb, PairingTail(sh[2])) :
        sh \in ImageShapes, n \in 0..MaxEntries, bad \in {0, 1, 2}, bb \in {0, 255}}

\* the index tokens of the command lines: "0", "1", "2", "-1" and "x"
Tokens == {<<48>>, <<49>>, <<50>>, <<45, 49>>, <<120>>}

\* index lists of at most n tokens
TokenLists(n) == UNION {[1..m -> Tokens] : m \in 0..n}

\* the -S arguments of the command lines: index, field, value; the values
\* are "1", "TrUe", "0", "False", "yes", "AB", 33 letters and "0a:0B 0c"
BpAssignLists ==
    {<<>>,
     <<<<48>>, "is_valid", <<49>>>>,
     <<<<48>>, "is_valid", <<84, 114, 85, 101>>>>,
     <<<<48>>, "is_valid", <<48>>>>,
     <<<<48>>, "is_valid", <<70, 97, 108, 115, 101>>>>,
     <<<<48>>, "is_valid", <<121, 101, 115>>>>,
     <<<<48>>, "is_valid">>,
     <<<<49>>, "bt_name", <<65, 66>>>>,
     <<<<48>>, "bt_name", Fill(33, 65)>>,
     <<<<48>>, "bt_name", Fill(17, 233)>>,
     <<<<45, 49>>, "bt_mac", <<48, 97, 58, 48, 66, 32, 48, 99>>>>,
     <<<<120>>, "link_key", <<48, 97>>>>,
     <<<<48>>, "paired_idx", <<49>>>>,
     <<<<48>>, "is_valid", <<48>>, <<48>>, "link_key", <<48, 97>>>>}

InitBtPairing ==
    /\ prog = "btpairing"
    /\ pc = "load_input"
    /\ \E image \in PairingImages : fs = [input_path |-> image]
    /\ input_binary = <<>>
    /\ \E add \in TokenLists(MaxTokens) :
       \E del \in TokenLists(MaxTokens - Len(add)) :
       \E sv \in IF add = <<>> /\ del = <<>> THEN BpAssignLists ELSE {<<>>} :
       \E cv \in IF add = <<>> /\ del = <<>> /\ sv = <<>>
                 THEN {<<>>, <<(<<48>>), "bt_name">>, <<(<<49>>), "link_key">>,
                       <<(<<45, 49>>), "is_valid">>, <<(<<120>>), "bt_mac">>,
                       <<(<<48>>), "paired_idx">>, <<(<<48>>)>>,
                       <<(<<48>>), "bt_mac", (<<50>>), "bt_name">>}
                 ELSE {<<>>} :
       \E out \in {<<FALSE, TRUE, FALSE>>, <<FALSE, TRUE, TRUE>>, <<TRUE, TRUE, FALSE>>} :
          args = [input_path |-> TRUE, print_input |-> FALSE,
                  print_output |-> FALSE,
                  add_entries |-> add, delete_entries |-> del,
                  assign_values |-> sv, clear_values |-> cv,
                  output_path |-> out[1], mod_path |-> out[2],
                  force_write_mod |-> out[3]]
    /\ err = "none"
    /\ files = <<>>
    /\ BpIdle
    /\ SfxIdle
    /\ InfoIdle
    /\ CodecIdle
    /\ InstIdle

NextBtPairing ==
    \/ BpLoadInput
    \/ BpAddEntries
    \/ BpDeleteEntries
    \/ BpAssignValues
    \/ BpClearValues
    \/ BpPrintOutput
    \/ BpSaveOutputStep

SpecBtPairing == InitBtPairing /\ [][NextBtPairing]_vars

-----------------------------------------------------------------------------
(* The audio files, firmware images and command lines of the sfx runs.     *)

\* an MP3 file of n bytes
Mp3File(n) ==
    [ext |-> "mp3", data |-> [i \in 1..n |-> 1 + (i % 200)],
     nchannels |-> 0, sampwidth |-> 0, framerate |-> 0]

\* a mono WAV file of n frames of the given sample width and frame rate
WavFile(n, sampwidth, framerate) ==
    [ext |-> "wav", data |-> [i \in 1..(n * sampwidth) |-> (7 * i) % 256],
     nchannels |-> 1, sampwidth |-> sampwidth, framerate |-> framerate]

AudioPool == {Mp3File(1), Mp3File(CHUNK_SIZE + 1), WavFile(10, 1, 8000)}

\* directory listings of at most n audio files
FileLists(n) == UNION {[1..m -> AudioPool] : m \in 0..n}

\* the region in front of the blob: empty (kind 0), 0x80 bytes that hold the
\* four magic bytes at an offset that is not a multiple of 0x80 (kind 1), or
\* 0x200 bytes that start with the magic bytes and hold no other zero, so
\* that too few of the HDR_SIZE bytes from offset 0 are zero (kind 2)
SfxPreRegion(withDecoy) ==
    CASE withDecoy = 0 -> <<>>
      [] withDecoy = 1 -> Fill(5, 165) \o SFX_MAGIC \o Fill(119, 165)
      [] OTHER -> SFX_MAGIC \o Fill(4 * 128 - Len(SFX_MAGIC), 165)

\* a firmware image: the region in front, the blob built from old without
\* its last cut bytes, and post bytes of an unparsed region behind it
SfxImage(withDecoy, old, cut, post) ==
    LET blob == SfxBlobBytes(load_from_files(<<>>, old))
    IN  SfxPreRegion(withDecoy) \o Slice(blob, 0, Len(blob) - cut) \o Fill(post, 90)

\* the images of the runs; one holds the magic bytes at an unaligned offset
\* only, one holds them within its last HDR_SIZE bytes only
SfxImages ==
    {SfxPreRegion(1) \o Fill(SFX_HDR_SIZE, 0),
     SFX_MAGIC \o Fill(SFX_HDR_SIZE - 1, 0)} \cup
    {SfxImage(2, <<f>>, 0, 0) : f \in AudioPool} \cup
    {SfxImage(d, old, cp[1], cp[2]) :
        d \in {0, 1}, old \in FileLists(MaxOldFiles) \ {<<>>},
        cp \in {<<0, 0>>, <<0, SfxPostLen>>, <<SfxCut, 0>>}}

InitSfx ==
    /\ prog = "sfx"
    /\ pc = "repack_load_input"
    /\ \E image \in SfxImages, new \in FileLists(MaxFiles),
          opt \in {<<FALSE, FALSE>>, <<FALSE, TRUE>>, <<TRUE, FALSE>>} :
          /\ fs = [input_path |-> new, inject_path |-> image]
          /\ args = [output_path |-> opt[1], inject_path |-> TRUE, force_inject |-> opt[2]]
    /\ input_binary = <<>>
    /\ err = "none"
    /\ files = <<>>
    /\ SfxIdle
    /\ BpIdle
    /\ InfoIdle
    /\ CodecIdle
    /\ InstIdle

NextSfx ==
    \/ SfxRepackLoadInput
    \/ SfxRepackSaveOutput
    \/ SfxRepackInjectOutput

SpecSfx == InitSfx /\ [][NextSfx]_vars

-----------------------------------------------------------------------------
(* Runs of appotech-btinfo.py.                                             *)

\* the 64 bytes of a stored structure named "AB" with a correct checksum
InfoRecord == BtInfoBytes([BtInfoNew EXCEPT !.flags = 3, !.bt_name = <<65, 66>>,
                                            !.bt_mac = <<1, 2, 3, 4, 5, 6>>])

\* a stored structure as another tool may have left it: a non-zero reserved
\* byte and two bytes behind the NUL of the name, the checksum being the sum
InfoRecordForeign ==
    LET body == [SubSeq(InfoRecord, 1, BTINFO_SIZE - 2) EXCEPT ![6] = 9, ![18] = 85, ![19] = 85]
    IN  body \o U16LE(SumBytes(body))

\* images: the structure alone, inside a larger file, cut short, with a
\* name that is not UTF-8, with reserved bytes in use, with a checksum that
\* is not the sum, and a file without the magic
InfoImages ==
    {InfoRecord,
     Fill(InfoPreLen, 165) \o InfoRecordForeign \o Fill(InfoPostLen, 90),
     Fill(InfoPreLen, 165) \o [InfoRecord EXCEPT ![BTINFO_SIZE - 1] = (@ + 1) % 256]
         \o Fill(InfoPostLen, 90),
     Fill(InfoPreLen, 165) \o InfoRecord \o Fill(InfoPostLen, 90),
     Fill(InfoPreLen, 165) \o SubSeq(InfoRecord, 1, BTINFO_SIZE - 1),
     Fill(InfoPreLen, 165) \o [InfoRecord EXCEPT ![15] = 255] \o Fill(InfoPostLen, 90),
     Fill(InfoPreLen, 165)}

\* the -S arguments of the command lines
InfoAssignLists ==
    {<<>>,
     <<"flags", <<49>>>>,
     <<"flags", <<50, 53, 54>>>>,
     <<"flags", <<120>>>>,
     <<"bt_name", <<1046, 1046>>>>,
     <<"bt_name", Fill(33, 65)>>,
     <<"bt_name", Fill(17, 233)>>,
     <<"bt_name", Fill(31, 97) \o <<8364>>>>,
     <<"bt_mac", <<65, 65, 58, 98, 98, 58, 48, 49, 58, 48, 50, 58, 48, 51, 58, 48, 52>>>>,
     <<"bt_mac", <<65, 65>>>>,
     <<"bt_mac", <<65>>>>,
     <<"checksum", <<49>>>>,
     <<"flags", <<49>>, "bt_name">>,
     <<"flags", <<51>>, "bt_name", <<65, 66>>>>}

\* the -C arguments of the command lines
InfoClearLists == {<<>>, <<"bt_name">>, <<"flags", "bt_mac">>, <<"checksum">>}

InitBtInfo ==
    /\ prog = "btinfo"
    /\ pc = "load_input"
    /\ \E image \in InfoImages : fs = [input_path |-> image]
    /\ input_binary = <<>>
    /\ \E inp \in BOOLEAN, pi \in BOOLEAN, po \in BOOLEAN,
          sv \in InfoAssignLists, cv \in InfoClearLists,
          out \in {<<FALSE, FALSE>>, <<FALSE, TRUE>>, <<TRUE, TRUE>>} :
          args = [input_path |-> inp, print_input |-> pi, print_output |-> po,
                  assign_values |-> sv, clear_values |-> cv,
                  output_path |-> out[1], mod_path |-> out[2]]
    /\ err = "none"
    /\ files = <<>>
    /\ BpIdle
    /\ SfxIdle
    /\ InfoIdle
    /\ CodecIdle
    /\ InstIdle

NextBtInfo ==
    \/ BiLoadInput
    \/ BiAssignValues
    \/ BiClearValues
    \/ BiPrintOutput
    \/ BiSaveOutputStep

SpecBtInfo == InitBtInfo /\ [][NextBtInfo]_vars

-----------------------------------------------------------------------------
(* Runs of any of the three programs.                                      *)

Init == InitBtPairing \/ InitSfx \/ InitBtInfo

Next ==
    \/ BpLoadInput
    \/ BpAddEntries
    \/ BpDeleteEntries
    \/ BpAssignValues
    \/ BpClearValues
    \/ BpPrintOutput
    \/ BpSaveOutputStep
    \/ SfxRepackLoadInput
    \/ SfxRepackSaveOutput
    \/ SfxRepackInjectOutput
    \/ BiLoadInput
    \/ BiAssignValues
    \/ BiClearValues
    \/ BiPrintOutput
    \/ BiSaveOutputStep

Spec == Init /\ [][Next]_vars

-----------------------------------------------------------------------------
(* Codec runs: a database is encoded with BtPairing.__bytes__ and the      *)
(* bytes are decoded by BtPairing.load on a fresh object.                  *)

\* the entries a database of a codec run is made of
EntryPool ==
    LET key  == [i \in 1..16 |-> 160 + i]
        mac  == <<1, 2, 3, 4, 5, 6>>
        name == <<65, 233, 66>>
    IN  {[link_key |-> key, bt_mac |-> mac, bt_name |-> name, is_valid |-> TRUE],
         [link_key |-> key, bt_mac |-> mac, bt_name |-> name, is_valid |-> FALSE],
         [link_key |-> Fill(16, 0), bt_mac |-> Reversed(mac), bt_name |-> <<>>,
          is_valid |-> TRUE],
         [link_key |-> <<1, 2, 3>>, bt_mac |-> mac, bt_name |-> name, is_valid |-> TRUE],
         [link_key |-> key, bt_mac |-> <<1, 2>>, bt_name |-> name, is_valid |-> TRUE],
         [link_key |-> key, bt_mac |-> mac, bt_name |-> <<65, 0, 66>>, is_valid |-> TRUE],
         [link_key |-> key, bt_mac |-> mac, bt_name |-> Fill(32, 97), is_valid |-> TRUE],
         [link_key |-> key, bt_mac |-> mac, bt_name |-> Fill(17, 233), is_valid |-> TRUE],
         [link_key |-> key, bt_mac |-> mac, bt_name |-> Fill(31, 97) \o <<8364>>,
          is_valid |-> TRUE],
         EmptyEntry}

\* the databases of the codec runs: up to MaxDbEntries entries
Databases ==
    {[entries |-> e, paired_idx |-> x] :
        e \in UNION {[1..n -> EntryPool] : n \in 1..MaxDbEntries}, x \in {0, 1, 255}}

InitBpCodec ==
    /\ prog = "codec"
    /\ pc = "encode"
    /\ args = <<>>
    /\ fs = <<>>
    /\ input_binary = <<>>
    /\ err = "none"
    /\ files = <<>>
    /\ bp \in Databases
    /\ bp_off_start = 0
    /\ bp_size = 0
    /\ bp_hash = <<>>
    /\ prev_entries = <<>>
    /\ SfxIdle
    /\ InfoIdle
    /\ CodecIdle
    /\ InstIdle

\* bytes(bp)
BpCodecEncode ==
    /\ prog = "codec"
    /\ pc = "encode"
    /\ wire' = BtPairingBytes(bp)
    /\ pc' = "decode"
    /\ UNCHANGED <<runVars, instVars, input_binary, err, files, bpVars, sfxVars, infoVars, decoded>>

\* BtPairing().load(wire)
BpCodecDecode ==
    /\ prog = "codec"
    /\ pc = "decode"
    /\ decoded' = BtPairingLoad(wire, BtPairingNew.paired_idx)
    /\ pc' = "done"
    /\ UNCHANGED <<runVars, instVars, input_binary, err, files, bpVars, sfxVars, infoVars, wire>>

NextBpCodec == BpCodecEncode \/ BpCodecDecode

SpecBpCodec == InitBpCodec /\ [][NextBpCodec]_vars

-----------------------------------------------------------------------------
(* BtInfo codec runs: a record is encoded with BtInfo.__bytes__, the bytes *)
(* may be altered the way a dump can differ from a fresh encoding, and are *)
(* decoded by BtInfo.load on a fresh object.                               *)

\* the records of the codec runs
InfoPool ==
    LET base == [BtInfoNew EXCEPT !.flags = 3, !.mic_unmute_thresh = 1,
                                  !.mic_mute_thresh = 2, !.mic_mute_duration = 255,
                                  !.bt_name = <<65, 233>>, !.bt_mac = <<1, 2, 3, 4, 5, 6>>]
    IN  {BtInfoNew, base,
         [base EXCEPT !.checksum = 4660],
         [base EXCEPT !.checksum = 65535, !.bt_name = Fill(32, 97)],
         [flags |-> 255, mic_unmute_thresh |-> 255, mic_mute_thresh |-> 255,
          mic_mute_duration |-> 255, bt_name |-> Fill(16, 1023),
          bt_mac |-> Fill(6, 255), checksum |-> 0],
         [base EXCEPT !.bt_name = Fill(33, 97)],
         [base EXCEPT !.bt_name = <<65, 0, 66>>],
         [base EXCEPT !.bt_name = Fill(31, 97) \o <<8364>>],
         [base EXCEPT !.bt_mac = <<1, 2>>],
         [base EXCEPT !.bt_mac = <<6, 5, 4, 3, 2, 1>>, !.bt_name = <<>>]}

\* what a dump may hold in place of the bytes b of a fresh encoding
InfoDumps(b) ==
    {b,
     [b EXCEPT ![Len(b) - 1] = (b[Len(b) - 1] + 1) % 256],
     [b EXCEPT ![Len(b)] = 255],
     b \o Fill(InfoPostLen, 90),
     SubSeq(b, 1, Len(b) - 1),
     SubSeq(b, 1, Len(b) - 2),
     [b EXCEPT ![1] = 0],
     [b EXCEPT ![15] = 255]}

InitBiCodec ==
    /\ prog = "bicodec"
    /\ pc = "encode"
    /\ args = <<>>
    /\ fs = <<>>
    /\ input_binary = <<>>
    /\ err = "none"
    /\ files = <<>>
    /\ btinfo \in InfoPool
    /\ btinfo_off_start = 0
    /\ btinfo_off_end = 0
    /\ btinfo_hash = <<>>
    /\ BpIdle
    /\ SfxIdle
    /\ CodecIdle
    /\ InstIdle

\* bytes(btinfo)
BiCodecEncode ==
    /\ prog = "bicodec"
    /\ pc = "encode"
    /\ wire' = BtInfoBytes(btinfo)
    /\ pc' = "dump"
    /\ UNCHANGED <<runVars, instVars, input_binary, err, files, bpVars, sfxVars, infoVars, decoded>>

\* the bytes as they are found in a dump
BiCodecDump ==
    /\ prog = "bicodec"
    /\ pc = "dump"
    /\ wire' \in InfoDumps(wire)
    /\ pc' = "decode"
    /\ UNCHANGED <<runVars, instVars, input_binary, err, files, bpVars, sfxVars, infoVars, decoded>>

\* BtInfo().load(wire)
BiCodecDecode ==
    /\ prog = "bicodec"
    /\ pc = "decode"
    /\ decoded' = BtInfoLoad(wire, BtInfoNew)
    /\ pc' = "done"
    /\ UNCHANGED <<runVars, instVars, input_binary, err, files, bpVars, sfxVars, infoVars, wire>>

NextBiCodec == BiCodecEncode \/ BiCodecDump \/ BiCodecDecode

SpecBiCodec == InitBiCodec /\ [][NextBiCodec]_vars

-----------------------------------------------------------------------------
(* Codec runs of the SFX blob: a blob is built from audio files with       *)
(* load_from_files, its entries are exported with export_to_file, the blob *)
(* is encoded with SfxBlob.__bytes__ and the bytes are decoded by          *)
(* SfxBlob.load on a fresh object.                                         *)

\* the audio files of the codec runs: MP3 files of 1 and 257 bytes, and WAV
\* files of 8 bits at 8 kHz (10 frames and none), of 16 bits at 16 kHz, of
\* 8 bits at 96 kHz and of 8 bits at 500 Hz; the frame rates stay below the
\* 256 kHz from which on the trailer cannot be packed
CodecAudioPool ==
    {Mp3File(1), Mp3File(CHUNK_SIZE + 1), WavFile(10, 1, 8000), WavFile(0, 1, 8000),
     WavFile(5, 2, 16000), WavFile(10, 1, 96000), WavFile(10, 1, 500)}

InitSfxCodec ==
    /\ prog = "sfxcodec"
    /\ pc = "build"
    /\ args = <<>>
    /\ fs = <<>>
    /\ input_binary = <<>>
    /\ err = "none"
    /\ files = <<>>
    /\ sb = <<>>
    /\ sb_off_start = 0
    /\ sb_size = 0
    /\ input_files \in UNION {[1..m -> CodecAudioPool] : m \in 0..MaxCodecFiles}
    /\ BpIdle
    /\ InfoIdle
    /\ CodecIdle
    /\ InstIdle

\* SfxBlob().load_from_files(input_files)
SfxCodecBuild ==
    /\ prog = "sfxcodec"
    /\ pc = "build"
    /\ sb' = load_from_files(<<>>, input_files)
    /\ pc' = "export"
    /\ UNCHANGED <<runVars, instVars, input_binary, err, files, sb_off_start, sb_size, input_files,
                   bpVars, infoVars, codecVars>>

\* entry.export_to_file() of every entry of the blob
SfxCodecExport ==
    /\ prog = "sfxcodec"
    /\ pc = "export"
    /\ files' = [i \in 1..Len(sb) |-> EntryExportToFile(sb[i])]
    /\ pc' = "encode"
    /\ UNCHANGED <<runVars, instVars, input_binary, err, sfxVars, bpVars, infoVars, codecVars>>

\* bytes(sb)
SfxCodecEncode ==
    /\ prog = "sfxcodec"
    /\ pc = "encode"
    /\ LET r == SfxEncode(sb)
       IN  /\ wire' = r.data
           /\ err' = r.err
           /\ pc' = IF r.err = "none" THEN "decode" ELSE "exit"
    /\ UNCHANGED <<runVars, instVars, input_binary, files, sfxVars, bpVars, infoVars, decoded>>

\* SfxBlob().load(wire)
SfxCodecDecode ==
    /\ prog = "sfxcodec"
    /\ pc = "decode"
    /\ decoded' = SfxLoad(wire)
    /\ pc' = "done"
    /\ UNCHANGED <<runVars, instVars, input_binary, err, files, sfxVars, bpVars, infoVars, wire>>

NextSfxCodec == SfxCodecBuild \/ SfxCodecExport \/ SfxCodecEncode \/ SfxCodecDecode

SpecSfxCodec == InitSfxCodec /\ [][NextSfxCodec]_vars

-----------------------------------------------------------------------------
(* Dump runs of the SFX blob: the bytes of a blob as a firmware dump holds *)
(* them are decoded by SfxBlob.load on a fresh object, and the decoded     *)
(* blob is encoded again with SfxBlob.__bytes__.                           *)

\* the blob of entries written with every payload gap bytes further back,
\* the descriptors pointing to where the payloads are
SfxMoved(entries, gap) ==
    LET moved == [i \in 1..Len(entries) |-> [entries[i] EXCEPT !.offset = @ + gap]]
    IN  WriteEntries(Fill(SfxTotalSize(entries) + gap, 0), moved, 0)

\* what a dump may hold for the blob built from the files of paths: the blob
\* as encoded, with its last SfxCut bytes missing, with a gap of one or two
\* chunks between the table and the payloads, with the first byte of the
\* trailer of a leading WAV entry overwritten (also behind a gap of three
\* chunks), or its first bytes only
SfxDumps(paths) ==
    LET entries == load_from_files(<<>>, paths)
        b == SfxBlobBytes(entries)
    IN  {b,
         Slice(b, 0, Len(b) - SfxCut),
         SfxMoved(entries, CHUNK_SIZE),
         SfxMoved(entries, 2 * CHUNK_SIZE),
         Slice(b, 0, SfxCut)} \cup
        IF entries # <<>> /\ entries[1].fmt = "WAV"
        THEN LET tr == entries[1].offset + entries[1].size * CHUNK_SIZE + 1
             IN  {[b EXCEPT ![tr] = 0],
                  [SfxMoved(entries, 3 * CHUNK_SIZE) EXCEPT ![tr + 3 * CHUNK_SIZE] = 0]}
        ELSE {}

InitSfxDump ==
    /\ prog = "sfxdump"
    /\ pc = "decode"
    /\ args = <<>>
    /\ fs = <<>>
    /\ \E paths \in UNION {[1..m -> CodecAudioPool] : m \in 0..MaxCodecFiles} :
          /\ SfxEncode(load_from_files(<<>>, paths)).err = "none"
          /\ input_binary \in SfxDumps(paths)
    /\ err = "none"
    /\ files = <<>>
    /\ SfxIdle
    /\ BpIdle
    /\ InfoIdle
    /\ CodecIdle
    /\ InstIdle

\* sb = SfxBlob(); sb.load(input_binary)
SfxDumpDecode ==
    /\ prog = "sfxdump"
    /\ pc = "decode"
    /\ decoded' = SfxLoad(input_binary)
    /\ sb' = decoded'.entries
    /\ err' = decoded'.err
    /\ pc' = IF decoded'.err = "none" THEN "encode" ELSE "exit"
    /\ UNCHANGED <<runVars, instVars, input_binary, files, sb_off_start, sb_size, input_files,
                   bpVars, infoVars, wire>>

\* bytes(sb)
SfxDumpEncode ==
    /\ prog = "sfxdump"
    /\ pc = "encode"
    /\ LET r == SfxEncode(sb)
       IN  /\ wire' = r.data
           /\ err' = r.err
           /\ pc' = IF r.err = "none" THEN "done" ELSE "exit"
    /\ UNCHANGED <<runVars, instVars, input_binary, files, sfxVars, bpVars, infoVars, decoded>>

NextSfxDump == SfxDumpDecode \/ SfxDumpEncode

SpecSfxDump == InitSfxDump /\ [][NextSfxDump]_vars

-----------------------------------------------------------------------------
(* Instance runs: objects are constructed with BtPairing() and SfxBlob(),  *)
(* and byte strings are decoded into them with load.  An instance holds a  *)
(* reference to its entry list; a list object is named by the class whose  *)
(* __init__ has it as the default value of its entries argument.           *)

\* the byte strings decoded into an instance of class cls
InstInputs(cls) ==
    LET e1 == [link_key |-> Fill(16, 7), bt_mac |-> <<1, 2, 3, 4, 5, 6>>,
               bt_name |-> <<65>>, is_valid |-> TRUE]
        e2 == [e1 EXCEPT !.bt_name = <<66>>]
    IN  IF cls = "BtPairing"
        THEN {<<>>} \cup
             {BtPairingBytes([entries |-> e, paired_idx |-> 0]) :
                 e \in {<<e1>>, <<e2>>, <<e1, e2>>, <<e2, e1>>}}
        ELSE {<<>>} \cup
             {SfxBlobBytes(load_from_files(<<>>, p)) :
                 p \in {<<Mp3File(1)>>, <<WavFile(10, 1, 8000)>>, <<Mp3File(CHUNK_SIZE + 1)>>,
                        <<Mp3File(1), WavFile(10, 1, 8000)>>}}

InitInst ==
    /\ prog = "instances"
    /\ pc = "run"
    /\ args = <<>>
    /\ fs = <<>>
    /\ input_binary = <<>>
    /\ err = "none"
    /\ files = <<>>
    /\ SfxIdle
    /\ BpIdle
    /\ InfoIdle
    /\ CodecIdle
    /\ InstIdle

\* BtPairing() or SfxBlob(): self.entries is the default list object itself,
\* and BtPairing() appends an empty entry to it when it is empty
InstNew ==
    /\ prog = "instances"
    /\ Len(instances) < MaxInstances
    /\ \E cls \in {"BtPairing", "SfxBlob"} :
          /\ instances' = Append(instances, [cls |-> cls, entries |-> cls, paired_idx |-> 0])
          /\ default_entries' =
                IF cls = "BtPairing" /\ default_entries.BtPairing = <<>>
                THEN [default_entries EXCEPT !.BtPairing = <<EmptyEntry>>]
                ELSE default_entries
    /\ UNCHANGED <<runVars, pc, input_binary, err, files, bpVars, sfxVars, infoVars,
                   codecVars>>

\* instances[i].load(data): the list the instance refers to is cleared and
\* filled in place
InstLoad(i) ==
    /\ prog = "instances"
    /\ i \in 1..Len(instances)
    /\ \E data \in InstInputs(instances[i].cls) :
          /\ input_binary' = data
          /\ IF instances[i].cls = "BtPairing"
             THEN LET r == BtPairingLoad(data, instances[i].paired_idx)
                  IN  /\ default_entries' =
                            [default_entries EXCEPT ![instances[i].entries] = r.bp.entries]
                      /\ instances' = [instances EXCEPT ![i].paired_idx = r.bp.paired_idx]
                      /\ err' = r.err
             ELSE LET r == SfxLoad(data)
                  IN  /\ default_entries' =
                            [default_entries EXCEPT ![instances[i].entries] = r.entries]
                      /\ instances' = instances
                      /\ err' = r.err
    /\ UNCHANGED <<runVars, pc, files, bpVars, sfxVars, infoVars, codecVars>>

NextInst == InstNew \/ \E i \in 1..MaxInstances : InstLoad(i)

SpecInst == InitInst /\ [][NextInst]_vars

-----------------------------------------------------------------------------
(* Properties of the btpairing runs.                                       *)

\* the firmware image written by -O, if any
ModFiles == {i \in 1..Len(files) : files[i].path = "mod_path"}
ModData == files[CHOOSE i \in ModFiles : TRUE].data

\* the run has gone through save_output and wrote the replacement image
BpInjected == prog = "btpairing" /\ pc = "done" /\ ModFiles # {}

\* the sector as save_output encoded it (nothing changes bp afterwards)
BpNewBytes == BtPairingBytes(bp)

\* C1: an injected sector shorter than the region recorded at load time is
\* written as original[0:start] + new bytes + 0xFF * (old_size - new_size)
\* + original[start + old_size:]
C1_ShortSectorPaddedWithFF ==
    (BpInjected /\ Len(BpNewBytes) < bp_size) =>
        ModData = Slice(input_binary, 0, bp_off_start) \o BpNewBytes
                    \o Fill(bp_size - Len(BpNewBytes), 255)
                    \o SliceFrom(input_binary, bp_off_start + bp_size)

\* the integers of an index list in the order the caller gave them
CallerOrder(tokens) == [k \in 1..Len(tokens) |-> Atoi(tokens[k])]

\* C6: after a successful add-entries the entry list is the one obtained by
\* inserting an empty entry at i1, then i2, ..., in the order the caller gave
C6_AddInCallerOrder ==
    (prog = "btpairing" /\ pc = "delete_entries" /\ args.add_entries # <<>>) =>
        bp.entries = InsertAll(prev_entries, CallerOrder(args.add_entries))

RECURSIVE WithoutPositions(_, _, _)
\* the list s, whose head has 0-based position i, without the elements at
\* the positions in S
WithoutPositions(s, S, i) ==
    IF s = <<>> THEN <<>>
    ELSE (IF i \in S THEN <<>> ELSE <<Head(s)>>) \o WithoutPositions(Tail(s), S, i + 1)

\* the orders in which the tokens of an index list can be supplied
Reorderings(tokens) ==
    {[k \in 1..Len(tokens) |-> tokens[p[k]]] :
        p \in {q \in [1..Len(tokens) -> 1..Len(tokens)] : Range(q) = 1..Len(tokens)}}

\* the latest step was a successful delete-entries of valid indices only
BpDeletedValid ==
    /\ prog = "btpairing"
    /\ pc = "print_output"
    /\ args.delete_entries # <<>>
    /\ \A k \in 1..Len(args.delete_entries) :
          /\ IsInt(args.delete_entries[k])
          /\ Atoi(args.delete_entries[k]) >= 0
          /\ Atoi(args.delete_entries[k]) < Len(prev_entries)

\* C7: delete-entries of valid indices leaves the original list without the
\* entries at those positions, survivors in their original order, whatever
\* the order in which the indices were supplied
C7_DeleteOrderIndependent ==
    BpDeletedValid =>
        /\ bp.entries = WithoutPositions(prev_entries,
                                         Range(CallerOrder(args.delete_entries)), 0)
        /\ \A t \in Reorderings(args.delete_entries) :
              delete_entries(prev_entries, t) = [ok |-> TRUE, entries |-> bp.entries]

\* C7 witness: indices 2 and 0, given in that order, removed from three entries
C7_Witness ==
    /\ BpDeletedValid
    /\ args.delete_entries = <<(<<50>>), (<<48>>)>>
    /\ Len(prev_entries) = 3
    /\ bp.entries = <<prev_entries[2]>>

\* C9: while no operation has failed the database holds at least one entry
C9_AtLeastOneEntry ==
    (prog = "btpairing" /\ err = "none") => Len(bp.entries) >= 1

\* the bytes handed to BtPairing.load by load_input
BpLoadedData == SliceFrom(input_binary, Find(input_binary, BP_MAGIC, 0))

\* load_input has decoded a stream with the magic, of sufficient length,
\* whose first record does not carry is_valid = 1
BpFirstRecordInvalid ==
    /\ prog = "btpairing"
    /\ pc # "load_input"
    /\ args.input_path
    /\ Find(input_binary, BP_MAGIC, 0) # -1
    /\ Len(BpLoadedData) >= BP_HDR_SIZE + ENTRY_SIZE + 1
    /\ BpLoadedData[BP_HDR_SIZE + ENTRY_SIZE] # 1

\* C10: decoding a stream whose first record has an is_valid byte other
\* than 1 fails with Empty; the run ends there with no database and no output
C10_FirstInvalidIsEmpty ==
    BpFirstRecordInvalid =>
        /\ err = "Empty"
        /\ pc = "exit"
        /\ bp.entries = <<>>
        /\ files = <<>>

\* C10 witness: the first record carries is_valid = 255 and decode failed
C10_Witness ==
    /\ BpFirstRecordInvalid
    /\ BpLoadedData[BP_HDR_SIZE + ENTRY_SIZE] = 255
    /\ Len(BpLoadedData) > BP_HDR_SIZE + 2 * ENTRY_SIZE
    /\ err = "Empty"

-----------------------------------------------------------------------------
(* Properties of the BtPairing codec.                                      *)

\* the fields of e have exactly their wire sizes and the name survives the
\* 32-byte NUL-padded field: no NUL in it, at most 32 bytes of UTF-8
WireSized(e) ==
    /\ Len(e.link_key) = 16
    /\ Len(e.bt_mac) = 6
    /\ 0 \notin Range(e.bt_name)
    /\ Len(Utf8Encode(e.bt_name)) <= 32

\* decode(encode(d)) succeeded with the entries and the paired_idx of d
BpRoundTripSame == decoded = [err |-> "none", bp |-> bp]

BpCodecDone == prog = "codec" /\ pc = "done"

\* C8 as stated: a database of wire-sized entries whose last entry is valid
\* decodes, after encoding, to the same entries and paired_idx
C8_RoundTripLastValid ==
    (/\ BpCodecDone
     /\ \A i \in 1..Len(bp.entries) : WireSized(bp.entries[i])
     /\ bp.entries[Len(bp.entries)].is_valid) => BpRoundTripSame

\* C8 amended: a database of wire-sized entries all of which are valid
\* decodes, after encoding, to the same entries and paired_idx
C8_RoundTripAllValid ==
    (/\ BpCodecDone
     /\ \A i \in 1..Len(bp.entries) : WireSized(bp.entries[i]) /\ bp.entries[i].is_valid)
        => BpRoundTripSame

\* C8 witness: two different valid entries, one with a two-byte character
\* in its name, came back unchanged with paired_idx 255
C8_Witness ==
    /\ BpCodecDone
    /\ Len(bp.entries) = 2
    /\ bp.entries[1] # bp.entries[2]
    /\ \A i \in 1..2 : WireSized(bp.entries[i]) /\ bp.entries[i].is_valid
    /\ 233 \in Range(bp.entries[1].bt_name)
    /\ bp.paired_idx = 255
    /\ BpRoundTripSame

\* the run has gone through repack_inject_output and wrote the new image
SfxInjected == prog = "sfx" /\ pc = "done" /\ files # <<>>

\* the image repack_inject_output wrote
SfxWritten == files[Len(files)].data

\* C2: an injected SFX blob shorter than the blob decoded from the firmware
\* is padded with 0xFF to the old size, and the written image is
\* original[0:start] + new bytes + padding + original[start + old_size:]
C2_ShortBlobPaddedWithFF ==
    (SfxInjected /\ Len(wire) < sb_size) =>
        SfxWritten = Slice(input_binary, 0, sb_off_start) \o wire
                        \o Fill(sb_size - Len(wire), 255)
                        \o SliceFrom(input_binary, sb_off_start + sb_size)

\* C2 witness: a blob built from no files injected over a blob with an entry
C2_Witness ==
    /\ SfxInjected
    /\ Len(wire) < sb_size
    /\ Len(wire) = SFX_HDR_SIZE
    /\ ~args.force_inject

\* save_output is about to inject a sector larger than the region recorded
\* at load time, and force is not set
BpOverflowCase ==
    /\ prog = "btpairing"
    /\ pc = "save_output"
    /\ args.mod_path
    /\ args.input_path
    /\ ~args.force_write_mod
    /\ Len(BtPairingBytes(bp)) > bp_size

\* repack_inject_output is about to inject a blob larger than the blob the
\* firmware holds, and force is not set
SfxOverflowCase ==
    /\ prog = "sfx"
    /\ pc = "repack_inject_output"
    /\ ~args.force_inject
    /\ ExtractLoadInput(fs.inject_path).err = "none"
    /\ Len(SfxBlobBytes(sb)) > ExtractLoadInput(fs.inject_path).size

\* C3: an injection of new bytes larger than the old region, without force,
\* fails with Overflow and writes no replacement image (BtPairing and SFX)
C3_OverflowRefused ==
    [][/\ BpOverflowCase =>
             /\ err' = "Overflow"
             /\ pc' = "exit"
             /\ \A i \in 1..Len(files') : files'[i].path # "mod_path"
       /\ SfxOverflowCase =>
             /\ err' = "Overflow"
             /\ pc' = "exit"
             /\ files' = <<>>]_vars

\* C3 witness: a btpairing run refused to inject a sector that had grown
C3_Witness ==
    /\ prog = "btpairing"
    /\ pc = "exit"
    /\ err = "Overflow"
    /\ args.add_entries # <<>>
    /\ Len(BtPairingBytes(bp)) > bp_size
    /\ ModFiles = {}

\* what is left of the new bytes after the truncation by delta
KeptOfNew(new, input, start) ==
    LET delta == start + Len(new) - Len(input)
    IN  IF delta > 0 THEN Slice(new, 0, Len(new) - delta) ELSE new

\* the image is the original with the kept bytes written over it at start,
\* and has the length of the original
ForcedImage(written, new, input, start) ==
    /\ written = Slice(input, 0, start) \o KeptOfNew(new, input, start)
                    \o SliceFrom(input, start + Len(KeptOfNew(new, input, start)))
    /\ Len(written) = Len(input)

\* C4: a forced injection of new bytes larger than the old region drops
\* exactly delta = start + new_size - len(original) trailing bytes when
\* delta > 0, none otherwise, and the written image has the original length
C4_ForceTruncatesToFileLength ==
    /\ (BpInjected /\ args.force_write_mod /\ Len(BpNewBytes) > bp_size) =>
          ForcedImage(ModData, BpNewBytes, input_binary, bp_off_start)
    /\ (SfxInjected /\ args.force_inject /\ Len(wire) > sb_size) =>
          ForcedImage(SfxWritten, wire, input_binary, sb_off_start)

\* C4 witness: a forced btpairing injection that lost trailing bytes
C4_Witness ==
    /\ BpInjected
    /\ args.force_write_mod
    /\ Len(BpNewBytes) > bp_size
    /\ bp_off_start + Len(BpNewBytes) > Len(input_binary)
    /\ Len(ModData) = Len(input_binary)

\* the run has gone through save_output and wrote the replacement image
InfoInjected == prog = "btinfo" /\ pc = "done" /\ ModFiles # {}

\* same length, and the same bytes outside [start, start + old_size)
SameOutside(written, input, start, old_size) ==
    /\ Len(written) = Len(input)
    /\ \A i \in 1..Len(input) :
          (i <= start \/ i > start + old_size) => written[i] = input[i]

\* C5: a successful injection without force leaves the image length and all
\* bytes outside [start, start + old_size) as they were (BtInfo, BtPairing, SFX)
C5_InjectionFrame ==
    /\ InfoInjected =>
          SameOutside(ModData, input_binary, btinfo_off_start,
                      btinfo_off_end - btinfo_off_start)
    /\ (BpInjected /\ ~args.force_write_mod) =>
          SameOutside(ModData, input_binary, bp_off_start, bp_size)
    /\ (SfxInjected /\ ~args.force_inject) =>
          SameOutside(SfxWritten, input_binary, sb_off_start, sb_size)

-----------------------------------------------------------------------------
(* Properties of the BtInfo codec.                                         *)

\* r has uint8 flags and mic fields, a NUL-free name of at most 32 bytes of
\* UTF-8 and a 6-byte MAC
InfoWireSized(r) ==
    /\ \A f \in {"flags", "mic_unmute_thresh", "mic_mute_thresh", "mic_mute_duration"} :
          r[f] \in 0..255
    /\ 0 \notin Range(r.bt_name)
    /\ Len(Utf8Encode(r.bt_name)) <= 32
    /\ Len(r.bt_mac) = 6

\* every field but the checksum is the same in both records
SameInfoFields(a, b) == \A f \in BTINFO_CONFIGURABLES : a[f] = b[f]

\* the bytes of the run were decoded as they were encoded
BiCodecDoneFresh == prog = "bicodec" /\ pc = "done" /\ wire = BtInfoBytes(btinfo)

\* C11: decode(encode(r)) has the fields of r and, as its checksum, the sum
\* of all bytes of encode(r) but the last two, mod 65536
C11_InfoRoundTrip ==
    (BiCodecDoneFresh /\ InfoWireSized(btinfo)) =>
        /\ decoded.err = "none"
        /\ SameInfoFields(decoded.btinfo, btinfo)
        /\ decoded.btinfo.checksum = SumBytes(SubSeq(wire, 1, Len(wire) - 2)) % 65536

\* C11 witness: a record with a two-byte character in its name and a MAC
\* that is not a palindrome came back unchanged
C11_Witness ==
    /\ BiCodecDoneFresh
    /\ InfoWireSized(btinfo)
    /\ btinfo.bt_name = <<65, 233>>
    /\ btinfo.bt_mac = <<1, 2, 3, 4, 5, 6>>
    /\ SameInfoFields(decoded.btinfo, btinfo)

\* the record of the run has just been encoded
BiCodecEncoded == prog = "bicodec" /\ pc = "dump"

\* C12: whatever the checksum field holds, the last two bytes of encode(r)
\* are the little-endian sum of all bytes in front of them, and that sum
\* does not exceed 0xFFFF
C12_ChecksumRecomputed ==
    BiCodecEncoded =>
        LET n   == Len(wire)
            sum == SumBytes(SubSeq(wire, 1, n - 2))
        IN  /\ sum <= 65535
            /\ wire[n - 1] = sum % 256
            /\ wire[n] = sum \div 256

\* C12 witness: a record holding checksum 0x1234 was encoded with another one
C12_Witness ==
    /\ BiCodecEncoded
    /\ btinfo.checksum = 4660
    /\ <<wire[Len(wire) - 1], wire[Len(wire)]>> # <<52, 18>>

InfoDecodable ==
    /\ prog = "bicodec"
    /\ pc = "done"
    /\ Len(wire) >= BTINFO_SIZE
    /\ MatchAt(wire, BTINFO_MAGIC, 0)
    /\ Utf8Valid(UntilNul(SubSeq(wire, 15, 46)))

\* the decoded bytes differ from the fresh encoding in the checksum only
InfoChecksumAltered ==
    /\ InfoDecodable
    /\ Len(wire) = BTINFO_SIZE
    /\ SubSeq(wire, 1, 62) = SubSeq(BtInfoBytes(btinfo), 1, 62)
    /\ wire # BtInfoBytes(btinfo)

\* C14: decode of bytes with the magic, the length and a UTF-8 name never
\* fails, and a stored checksum that does not match leaves the decoded
\* fields as they are with a matching one
C14_ChecksumNeverFails ==
    /\ InfoDecodable => decoded.err = "none"
    /\ (InfoChecksumAltered /\ InfoWireSized(btinfo)) =>
          SameInfoFields(decoded.btinfo, btinfo)

\* C14 witness: a record with a wrong stored checksum was decoded
C14_Witness ==
    /\ InfoChecksumAltered
    /\ InfoWireSized(btinfo)
    /\ decoded.err = "none"
    /\ decoded.btinfo.checksum # SumBytes(SubSeq(wire, 1, 62))

-----------------------------------------------------------------------------
(* Properties of the SFX locator and decoder, on the firmware image that   *)
(* repack_inject_output loads with extract_load_input.                     *)

\* extract_load_input has read the firmware image
SfxImageRead == prog = "sfx" /\ pc \in {"done", "exit"} /\ input_binary # <<>>

\* the offsets the locator may accept: the marker lies within the image
\* without its last HDR_SIZE bytes, the offset is a multiple of 0x80, and
\* more than 80% of the HDR_SIZE bytes from the offset on are zero
SfxQualifying(data) ==
    {p \in 0..(Len(data) - SFX_HDR_SIZE - Len(SFX_MAGIC)) :
        /\ SubSeq(data, p + 1, p + Len(SFX_MAGIC)) = SFX_MAGIC
        /\ p % 128 = 0
        /\ 5 * Cardinality({i \in (p + 1)..(p + SFX_HDR_SIZE) : data[i] = 0})
              > 4 * SFX_HDR_SIZE}

\* C15: the locator returns the smallest qualifying offset, and fails when
\* no offset qualifies
C15_LocatorFirstQualifying ==
    SfxImageRead =>
        IF SfxQualifying(input_binary) = {}
        THEN err = "NotFound"
        ELSE /\ err # "NotFound"
             /\ sb_off_start \in SfxQualifying(input_binary)
             /\ \A q \in SfxQualifying(input_binary) : sb_off_start <= q

\* the occurrences of the marker in data that the two checks turn down
SfxSkipped(data) ==
    {p \in 0..(Len(data) - SFX_HDR_SIZE - Len(SFX_MAGIC)) :
        /\ SubSeq(data, p + 1, p + Len(SFX_MAGIC)) = SFX_MAGIC
        /\ p \notin SfxQualifying(data)}

\* C15 witness: an aligned occurrence with too few zeroes behind it was
\* skipped and the blob behind it found
C15_Witness ==
    /\ SfxImageRead
    /\ 0 \in SfxSkipped(input_binary)
    /\ sb_off_start = 4 * 128
    /\ err = "none"

\* C15 witness of the failing case: an unaligned occurrence only
C15_WitnessNotFound ==
    /\ SfxImageRead
    /\ SfxSkipped(input_binary) # {}
    /\ err = "NotFound"

\* C15 witness of the search range: the marker lies at an aligned offset in
\* front of enough zeroes, but within the last HDR_SIZE bytes
C15_WitnessOutOfRange ==
    /\ SfxImageRead
    /\ MatchAt(input_binary, SFX_MAGIC, 0)
    /\ 10 * Zeroes(input_binary, 0) > 8 * SFX_HDR_SIZE
    /\ err = "NotFound"

\* C16: a decode that accepted a descriptor whose offset + span reaches
\* beyond the buffer fails with Truncated
C16_ShortBufferIsTruncated ==
    (/\ SfxImageRead
     /\ err # "NotFound"
     /\ \E i \in 1..Len(sb) :
           Len(input_binary) - sb_off_start < sb[i].offset + EntryTotalSize(sb[i]))
        => err = "Truncated"

-----------------------------------------------------------------------------
(* Properties of the typed field assignment (set_variable) as the programs *)
(* call it.                                                                *)

\* assign_values of appotech-btinfo.py is about to assign bt_name a text
\* longer than the 32 characters of its length constraint
BiNameTooLong ==
    /\ prog = "btinfo"
    /\ pc = "assign_values"
    /\ Len(args.assign_values) = 2
    /\ args.assign_values[1] = "bt_name"
    /\ Len(args.assign_values[2]) > 32

\* C18: assigning a text field a text whose length is outside the length
\* constraint fails with the application error and keeps the field's value
C18_TextLengthOutOfRange ==
    [][BiNameTooLong => (err' = "AppotechError" /\ btinfo' = btinfo)]_vars

\* assign_values of appotech-btpairing.py is about to assign is_valid of the
\* first entry the one token of the command line
BpAssignsIsValid ==
    /\ prog = "btpairing"
    /\ pc = "assign_values"
    /\ Len(args.assign_values) = 3
    /\ args.assign_values[1] = <<48>>
    /\ args.assign_values[2] = "is_valid"
    /\ Len(bp.entries) >= 1

\* the lower-case spellings of the boolean tokens: 1, true, 0, false
TrueTokens == {<<49>>, <<116, 114, 117, 101>>}
FalseTokens == {<<48>>, <<102, 97, 108, 115, 101>>}

\* C19: the tokens 1/true set True and 0/false set False in any case; any
\* other token fails with the application error and leaves the field as it is
C19_BooleanTokens ==
    [][BpAssignsIsValid =>
        LET token == Lower(args.assign_values[3])
        IN  IF token \in TrueTokens
            THEN err' = "none" /\ bp'.entries[1].is_valid = TRUE
            ELSE IF token \in FalseTokens
            THEN err' = "none" /\ bp'.entries[1].is_valid = FALSE
            ELSE err' = "AppotechError" /\ bp' = bp]_vars

\* the part of C19 about the accepted tokens, and the unchanged field of a
\* refused one
C19_AcceptedTokens ==
    [][BpAssignsIsValid =>
        LET token == Lower(args.assign_values[3])
        IN  IF token \in TrueTokens
            THEN err' = "none" /\ bp'.entries[1].is_valid = TRUE
            ELSE IF token \in FalseTokens
            THEN err' = "none" /\ bp'.entries[1].is_valid = FALSE
            ELSE err' # "none" /\ bp' = bp]_vars

-----------------------------------------------------------------------------
(* Properties of the SFX codec.                                            *)

\* the encoding of the built blob was attempted
SfxCodecEncoded == prog = "sfxcodec" /\ pc \in {"done", "exit"}

\* the decoded blob has the entries of the built one: their number, and per
\* entry the variant, size, samplerate, offset and stored payload
SfxRoundTripSame ==
    /\ pc = "done"
    /\ err = "none"
    /\ decoded.err = "none"
    /\ Len(decoded.entries) = Len(sb)
    /\ \A i \in 1..Len(sb) :
          /\ decoded.entries[i].fmt = sb[i].fmt
          /\ decoded.entries[i].size = sb[i].size
          /\ decoded.entries[i].samplerate = sb[i].samplerate
          /\ decoded.entries[i].offset = sb[i].offset
          /\ decoded.entries[i].contents = sb[i].contents

\* the frame rate of every WAV input fits the 16 bits of the descriptor
SfxRatesFit ==
    \A i \in 1..Len(input_files) :
        input_files[i].ext = "wav" => input_files[i].framerate < 2^16

SfxCodecExported == prog = "sfxcodec" /\ pc \in {"encode", "decode", "done", "exit"}

\* b ^ 0x80
Flip(b) == IF b < 128 THEN b + 128 ELSE b - 128

\* data is s, or s with every byte flipped, followed by zeroes up to a
\* multiple of 256 bytes
StoredFrom(data, s, flipped) ==
    /\ Len(data) % 256 = 0
    /\ Len(data) >= Len(s)
    /\ Len(data) < Len(s) + 256
    /\ \A k \in 1..Len(data) :
          data[k] = IF k > Len(s) THEN 0 ELSE IF flipped THEN Flip(s[k]) ELSE s[k]

\* the export of the i-th entry gives back the first bytes of its input
ExportStartsWithInput(i) ==
    /\ files[i].err = "none"
    /\ SubSeq(files[i].file.data, 1, Len(input_files[i].data)) = input_files[i].data

\* what C20 says of the i-th input, the export included when withExport
ExportReverses(i, withExport) ==
    LET f == input_files[i]
    IN  CASE f.ext = "mp3" ->
               files[i].err = "none" /\ files[i].file.data = sb[i].contents
          [] f.ext = "wav" /\ f.sampwidth = 1 ->
               /\ StoredFrom(sb[i].contents, f.data, TRUE)
               /\ withExport => ExportStartsWithInput(i)
          [] f.ext = "wav" /\ f.sampwidth = 2 ->
               /\ StoredFrom(sb[i].contents, f.data, FALSE)
               /\ withExport => ExportStartsWithInput(i)
          [] OTHER -> TRUE

-----------------------------------------------------------------------------
(* Properties of BtPairing.load on the streams of the btpairing runs.      *)

\* load_input has handed a stream that starts with the magic to the decoder
BpDecoded ==
    /\ prog = "btpairing"
    /\ pc # "load_input"
    /\ Find(input_binary, BP_MAGIC, 0) # -1

\* the j-th record behind the header of data lies wholly within data and its
\* last byte is 1
BpRecordValid(data, j) ==
    /\ BP_HDR_SIZE + j * ENTRY_SIZE <= Len(data)
    /\ data[BP_HDR_SIZE + j * ENTRY_SIZE] = 1

\* the length of the longest run of such records from the first one on
BpValidRun(data) ==
    CHOOSE k \in 0..(Len(data) \div ENTRY_SIZE) :
        /\ \A j \in 1..k : BpRecordValid(data, j)
        /\ ~BpRecordValid(data, k + 1)

\* C21: a successful decode holds exactly the records of the longest valid
\* run and the byte behind them as paired_idx; a run with no byte behind it
\* fails with Truncated
C21_LongestValidRun ==
    BpDecoded =>
        LET data == BpLoadedData
            k    == BpValidRun(data)
            stop == BP_HDR_SIZE + k * ENTRY_SIZE
        IN  /\ pc = "add_entries" =>
                  /\ k >= 1
                  /\ Len(bp.entries) = k
                  /\ \A j \in 1..k :
                        bp.entries[j].link_key =
                            SubSeq(data, stop - (k - j + 1) * ENTRY_SIZE + 1,
                                   stop - (k - j + 1) * ENTRY_SIZE + 16)
                  /\ Len(data) > stop
                  /\ bp.paired_idx = data[stop + 1]
            /\ (k >= 1 /\ Len(data) <= stop) => (pc = "exit" /\ err = "Truncated")

\* C21 witness: the run ends at a record whose is_valid byte is 255, with a
\* further record behind it, and the first byte of that record became
\* paired_idx
C21_Witness ==
    /\ BpDecoded
    /\ pc = "add_entries"
    /\ BpValidRun(BpLoadedData) = 1
    /\ Len(BpLoadedData) > BP_HDR_SIZE + 3 * ENTRY_SIZE
    /\ BpLoadedData[BP_HDR_SIZE + 2 * ENTRY_SIZE] = 255
    /\ Len(bp.entries) = 1
    /\ bp.paired_idx = BpLoadedData[BP_HDR_SIZE + ENTRY_SIZE + 1]
    /\ bp.paired_idx = 2 * 17

\* C21 witness of the failing case: two valid records and no byte behind
C21_WitnessTruncated ==
    /\ BpDecoded
    /\ BpValidRun(BpLoadedData) = 2
    /\ Len(BpLoadedData) = BP_HDR_SIZE + 2 * ENTRY_SIZE
    /\ err = "Truncated"

-----------------------------------------------------------------------------
(* Properties of the SFX encoder on decoded and on built blobs.            *)

\* the layout C22 describes of the bytes data for the blob of entries
SfxLaidOut(data, entries) ==
    /\ Len(data) = SFX_HDR_SIZE + SumSizes(entries)
    /\ \A k \in 1..Len(entries) :
          /\ SubSeq(data, DESC_SIZE * (k - 1) + 1, DESC_SIZE * k) = EntryHeader(entries[k])
          /\ entries[k].offset + EntryTotalSize(entries[k]) <= Len(data)
          /\ SubSeq(data, entries[k].offset + 1,
                    entries[k].offset + EntryTotalSize(entries[k]))
                 = entries[k].contents \o entries[k].trailer

\* C22: the encoding of a decoded blob has the length of the table plus the
\* spans, the descriptors in their slots and every payload at its offset
C22_EncodeLayout ==
    (prog = "sfxdump" /\ pc = "done") => SfxLaidOut(wire, sb)

\* the same on the blobs built from files
C22_EncodeLayoutOfBuilt ==
    (prog = "sfxcodec" /\ pc \in {"decode", "done"}) => SfxLaidOut(wire, sb)

\* the blob of a codec run was built from its files
SfxCodecBuilt == prog = "sfxcodec" /\ pc # "build"

\* the bytes an entry takes behind the table: its chunks, and the trailer of
\* a WAV entry
SfxSpan(e) == e.size * 256 + (IF e.fmt = "WAV" THEN 256 ELSE 0)

\* C23: the entries of a built blob lie one behind the other from 0x800 on,
\* at multiples of 256, and the blob ends with the last of them
C23_ContiguousLayout ==
    SfxCodecBuilt =>
        /\ Len(sb) = Len(input_files)
        /\ \A i \in 1..Len(sb) :
              /\ sb[i].offset =
                    IF i = 1 THEN 2048 ELSE sb[i - 1].offset + SfxSpan(sb[i - 1])
              /\ sb[i].offset % 256 = 0
              /\ Len(sb[i].contents) = sb[i].size * 256
        /\ sb # <<>> => SfxTotalSize(sb) = sb[Len(sb)].offset + SfxSpan(sb[Len(sb)])

\* C23 witness: an MP3 entry of two chunks behind a WAV entry of one
C23_Witness ==
    /\ SfxCodecBuilt
    /\ Len(sb) = 2
    /\ sb[1].fmt = "WAV"
    /\ sb[1].size = 1
    /\ sb[2].fmt = "MP3"
    /\ sb[2].size = 2
    /\ sb[2].offset = 2048 + 512
    /\ SfxTotalSize(sb) = 2048 + 1024

-----------------------------------------------------------------------------
(* Properties of the SFX decoder on WAV entries without trailer magic.     *)

\* the descriptors of the dump of a dump run
SfxDumpTable ==
    IF Len(input_binary) < SFX_HDR_SIZE THEN <<>> ELSE ReadTable(input_binary, 0, <<>>)

\* the k-th descriptor of the dump is a WAV entry that lies in the dump and
\* whose last 256 bytes do not start with the trailer magic
SfxNoTrailerMagic(k) ==
    LET e == SfxDumpTable[k]
    IN  /\ e.samplerate # 0
        /\ e.offset + e.size * 256 + 256 <= Len(input_binary)
        /\ Slice(input_binary, e.offset + e.size * 256, e.offset + e.size * 256 + 4)
              # <<87, 65, 86, 0>>

\* the bytes of the dump that the k-th descriptor covers
SfxDumpPayload(k) ==
    LET e == SfxDumpTable[k]
    IN  Slice(input_binary, e.offset, e.offset + e.size * 256 + 256)

\* C24: a WAV entry without trailer magic does not fail the decode, is kept
\* with an empty trailer, and the encoding of the decoded blob holds the
\* entry's size*256+256 bytes of the dump at the entry's offset
C24_NoTrailerRoundTrip ==
    (prog = "sfxdump" /\ pc # "decode") =>
        \A k \in 1..Len(SfxDumpTable) :
            SfxNoTrailerMagic(k) =>
                /\ decoded.err = "none"
                /\ decoded.entries[k].trailer = <<>>
                /\ pc = "done" =>
                      Slice(wire, SfxDumpTable[k].offset,
                            SfxDumpTable[k].offset + SfxDumpTable[k].size * 256 + 256)
                          = SfxDumpPayload(k)

\* the decoding half of C24: the entry is kept with an empty trailer and
\* with all the bytes of the dump that its descriptor covers
C24_NoTrailerDecode ==
    (prog = "sfxdump" /\ pc # "decode") =>
        \A k \in 1..Len(SfxDumpTable) :
            SfxNoTrailerMagic(k) =>
                /\ decoded.err = "none"
                /\ decoded.entries[k].trailer = <<>>
                /\ decoded.entries[k].contents = SfxDumpPayload(k)

\* a dump run with such an entry right behind the table was encoded again
C24_InPlaceCase ==
    /\ prog = "sfxdump"
    /\ pc = "done"
    /\ Len(SfxDumpTable) >= 1
    /\ SfxNoTrailerMagic(1)
    /\ SfxDumpTable[1].offset = SFX_HDR_SIZE
    /\ wire = input_binary

-----------------------------------------------------------------------------
(* Properties of objects constructed with default arguments.               *)

\* the entries seen through the j-th instance
InstEntries(j) == default_entries[instances[j].entries]

\* C25: a load into one instance leaves the entries seen through every other
\* instance as they were
C25_IndependentEntries ==
    [][\A i \in 1..Len(instances) : \A j \in 1..Len(instances) :
          (i # j /\ InstLoad(i)) => InstEntries(j)' = InstEntries(j)]_vars

\* two instances of different classes: a load into one leaves the entries of
\* the other as they were
C25_OtherClassUntouched ==
    [][\A i \in 1..Len(instances) : \A j \in 1..Len(instances) :
          (instances[i].cls # instances[j].cls /\ InstLoad(i))
              => InstEntries(j)' = InstEntries(j)]_vars

\* two pairing databases were constructed and the first holds two entries
\* after a load
C25_TwoDatabases ==
    /\ prog = "instances"
    /\ Len(instances) = 2
    /\ instances[1].cls = "BtPairing"
    /\ instances[2].cls = "BtPairing"
    /\ Len(InstEntries(1)) = 2

-----------------------------------------------------------------------------
(* Properties of runs that change no field.                                *)

\* a run of appotech-btinfo.py or appotech-btpairing.py on an input file
\* that asks for no change and has written the file of -O
NoOpInjected(k) ==
    /\ prog \in {"btinfo", "btpairing"}
    /\ pc = "done"
    /\ args.input_path
    /\ args.assign_values = <<>>
    /\ args.clear_values = <<>>
    /\ prog = "btpairing" => (args.add_entries = <<>> /\ args.delete_entries = <<>>)
    /\ k \in 1..Len(files)
    /\ files[k].path = "mod_path"

\* every byte of field behind its first zero byte is zero
ZeroAfterNul(field) ==
    \A i \in 1..Len(field) : \A j \in 1..i : field[j] = 0 => field[i] = 0

\* the structure of the input of a btinfo run has zero reserved bytes, a
\* name field that is zero behind its first NUL, and the sum as its checksum
InfoSectorCanonical ==
    LET s == Slice(input_binary, btinfo_off_start, btinfo_off_end)
    IN  /\ \A i \in {6} \cup 11..14 \cup 53..62 : s[i] = 0
        /\ ZeroAfterNul(SubSeq(s, 15, 46))
        /\ s[63] + 256 * s[64] = SumBytes(SubSeq(s, 1, 62))

\* the name field of every record that the btpairing run decoded is zero
\* behind its first NUL
PairingSectorCanonical ==
    \A r \in 1..Len(bp.entries) :
        ZeroAfterNul(Slice(input_binary, bp_off_start + 16 + 55 * (r - 1) + 22,
                           bp_off_start + 16 + 55 * (r - 1) + 54))

\* C26 as stated: the file written for -O by a run that changes no field is
\* the input file, byte for byte
C26_NoOpIdentity ==
    \A k \in 1..Len(files) : NoOpInjected(k) => files[k].data = input_binary

\* C26 amended: it is the input file when the structure is stored the way
\* the encoder writes it
C26_NoOpIdentityCanonical ==
    \A k \in 1..Len(files) :
        (/\ NoOpInjected(k)
         /\ prog = "btinfo" => InfoSectorCanonical
         /\ prog = "btpairing" => PairingSectorCanonical)
            => files[k].data = input_binary

\* a btpairing run without changes on an image with one record, bytes in
\* front of the structure and bytes behind it
C26_Witness ==
    /\ prog = "btpairing"
    /\ NoOpInjected(Len(files))
    /\ PairingSectorCanonical
    /\ bp_off_start = PreLen
    /\ Len(bp.entries) = 1
    /\ Len(input_binary) = PreLen + 16 + 2 * 55 + 1 + PostLen
    /\ files[Len(files)].data = input_binary

\* a btinfo run without changes on a structure with bytes around it
C26_WitnessInfo ==
    /\ prog = "btinfo"
    /\ NoOpInjected(Len(files))
    /\ InfoSectorCanonical
    /\ btinfo_off_start = InfoPreLen
    /\ Len(input_binary) = InfoPreLen + BTINFO_SIZE + InfoPostLen
    /\ files[Len(files)].data = input_binary

\* a btinfo run without changes whose output differs from its input in
\* nothing but the two bytes of the checksum
C26_ChecksumRewritten ==
    /\ prog = "btinfo"
    /\ NoOpInjected(Len(files))
    /\ {i \in 1..Len(input_binary) : files[Len(files)].data[i] # input_binary[i]}
           = {btinfo_off_start + 63}

-----------------------------------------------------------------------------
(* Properties of the index checks of appotech-btpairing.py.                *)

\* the latest step was a delete-entries that the program accepted
BpDeleted ==
    /\ prog = "btpairing"
    /\ pc = "print_output"
    /\ args.delete_entries # <<>>

\* the indices given to delete-entries
BpDeleteIndices == {Atoi(args.delete_entries[k]) : k \in 1..Len(args.delete_entries)}

\* C27: an accepted delete-entries names existing entries only, and the list
\* is shorter by the number of distinct indices
C27_DeleteOnlyExisting ==
    BpDeleted =>
        /\ \A i \in BpDeleteIndices : 0 <= i /\ i < Len(prev_entries)
        /\ Len(bp.entries) = Len(prev_entries) - Cardinality(BpDeleteIndices)

\* the indices that are positions of the list shorten it by their number
C27_ExistingOnesRemoved ==
    BpDeleted =>
        Len(bp.entries) = Len(prev_entries)
            - Cardinality(BpDeleteIndices \cap 0..(Len(prev_entries) - 1))

\* delete-entries of the index that equals the entry count was accepted and
\* removed nothing
C27_CountAccepted ==
    /\ BpDeleted
    /\ BpDeleteIndices = {Len(prev_entries)}
    /\ bp.entries = prev_entries

\* delete-entries of -1 was accepted and removed nothing
C27_NegativeAccepted ==
    /\ BpDeleted
    /\ BpDeleteIndices = {-1}
    /\ bp.entries = prev_entries

\* the step is an assign_values with one request (index, field, value) or
\* a clear_values with one request (index, field) whose index is a number
BpOneRequest ==
    \/ BpAssignValues /\ Len(args.assign_values) = 3 /\ IsInt(args.assign_values[1])
    \/ BpClearValues /\ Len(args.clear_values) = 2 /\ IsInt(args.clear_values[1])

\* the index and the field of that request
BpRequestIndex ==
    IF pc = "assign_values" THEN Atoi(args.assign_values[1]) ELSE Atoi(args.clear_values[1])
BpRequestField ==
    IF pc = "assign_values" THEN args.assign_values[2] ELSE args.clear_values[2]

\* the step changed nothing but the named field of the entry at the index
BpOnlyNamedFieldChanged ==
    /\ Len(bp'.entries) = Len(bp.entries)
    /\ \A k \in 1..Len(bp.entries) :
          \A f \in {"link_key", "bt_mac", "bt_name", "is_valid"} :
              (k # BpRequestIndex + 1 \/ f # BpRequestField)
                  => bp'.entries[k][f] = bp.entries[k][f]

\* C28: an assign or clear request with an index that is not a position of
\* the list ends with 'Invalid index' and changes no entry; one with a valid
\* index changes only the named field of that entry
C28_IndexChecked ==
    [][BpOneRequest =>
          IF BpRequestIndex \in 0..(Len(bp.entries) - 1)
          THEN BpOnlyNamedFieldChanged
          ELSE err' = "InvalidIndex" /\ bp'.entries = bp.entries]_vars

\* the half of C28 about valid indices
C28_ValidIndexFrame ==
    [][(BpOneRequest /\ BpRequestIndex \in 0..(Len(bp.entries) - 1))
          => BpOnlyNamedFieldChanged]_vars

\* a clear request with the index -1 was accepted and changed the last of
\* two entries
C28_NegativeCleared ==
    /\ prog = "btpairing"
    /\ pc = "print_output"
    /\ args.clear_values = <<(<<45, 49>>), "is_valid">>
    /\ Len(bp.entries) = 2
    /\ ~bp.entries[2].is_valid

\* a request with the index 1 on a list of one entry ended in an IndexError
C28_CountNotRejected ==
    /\ prog = "btpairing"
    /\ pc = "exit"
    /\ err = "IndexError"
    /\ Len(bp.entries) = 1

-----------------------------------------------------------------------------
(* Properties of assigned names under encoding and decoding.               *)

\* appotech-btinfo.py has assigned bt_name the text of its one -S request
BiNameAssigned ==
    /\ prog = "btinfo"
    /\ pc = "clear_values"
    /\ Len(args.assign_values) = 2
    /\ args.assign_values[1] = "bt_name"
    /\ btinfo.bt_name = args.assign_values[2]

\* appotech-btpairing.py has assigned bt_name of the first entry the text of
\* its one -S request
BpNameAssigned ==
    /\ prog = "btpairing"
    /\ pc = "print_output"
    /\ Len(args.assign_values) = 3
    /\ args.assign_values[1] = <<48>>
    /\ args.assign_values[2] = "bt_name"
    /\ bp.entries[1].bt_name = args.assign_values[3]

\* the name that decoding the encoded structure gives: <<ok, name>>
BiNameRoundTrip ==
    LET r == BtInfoLoad(BtInfoBytes(btinfo), BtInfoNew)
    IN  <<r.err = "none", r.btinfo.bt_name>>
BpNameRoundTrip ==
    LET r == EntryLoad(EntryBytes(bp.entries[1]))
    IN  <<r.ok, r.entry.bt_name>>

\* C29: a name that the assignment accepted is the name that decoding the
\* encoded structure gives
C29_AssignedNameSurvives ==
    /\ BiNameAssigned => BiNameRoundTrip = <<TRUE, btinfo.bt_name>>
    /\ BpNameAssigned => BpNameRoundTrip = <<TRUE, bp.entries[1].bt_name>>

\* it is when its UTF-8 encoding has at most 32 bytes
C29_FittingNameSurvives ==
    /\ (BiNameAssigned /\ Len(Utf8Encode(btinfo.bt_name)) <= 32)
          => BiNameRoundTrip = <<TRUE, btinfo.bt_name>>
    /\ (BpNameAssigned /\ Len(Utf8Encode(bp.entries[1].bt_name)) <= 32)
          => BpNameRoundTrip = <<TRUE, bp.entries[1].bt_name>>

\* a name of 17 two-byte characters was accepted and decodes as its first 16
C29_NameCut ==
    /\ BiNameAssigned
    /\ Len(btinfo.bt_name) = 17
    /\ BiNameRoundTrip = <<TRUE, SubSeq(btinfo.bt_name, 1, 16)>>

\* a name of 32 characters whose last one takes three bytes was accepted and
\* the encoded structure cannot be decoded
C29_NameUndecodable ==
    /\ BiNameAssigned
    /\ Len(btinfo.bt_name) = 32
    /\ ~BiNameRoundTrip[1]

\* a name of two two-byte characters was accepted and survives
C29_ShortNameSurvives ==
    /\ BiNameAssigned
    /\ btinfo.bt_name = <<1046, 1046>>
    /\ BiNameRoundTrip = <<TRUE, btinfo.bt_name>>

-----------------------------------------------------------------------------
(* Properties of the end of a run of appotech-btinfo.py.                   *)

\* a run without a failure that was given -o or -O has ended: main() has
\* returned or the process has exited with status 0.  Every step of a run
\* moves on to a later statement of main(), so a run always ends.
BiEndedWell ==
    /\ prog = "btinfo"
    /\ pc \in {"done", "exit"}
    /\ err = "none"
    /\ (args.output_path \/ args.mod_path)

\* C30: a run whose loading and mutations succeeded and that was given an
\* output path has written a file when it ends
C30_SavedAtEnd == BiEndedWell => files # <<>>

\* it has when -P is not given
C30_SavedAtEndWithoutPrint == (BiEndedWell /\ ~args.print_output) => files # <<>>

\* a run with -P and -o whose structure is what was loaded has exited with
\* status 0 and has written nothing
C30_ExitBeforeSave ==
    /\ prog = "btinfo"
    /\ pc = "exit"
    /\ err = "none"
    /\ args.print_output
    /\ args.output_path
    /\ btinfo_hash = BtInfoBytes(btinfo)
    /\ files = <<>>

=============================================================================
